---- MODULE Spec2Model ----
(***************************************************************************)
(* Sprite batching engine of Vulkan2D (V2D::SpriteBatch).                  *)
(*                                                                         *)
(* Two implementations live in src/src/Renderer/SpriteBatch.cpp:           *)
(*   - the instanced-capable one (lines 338-822), modelled by the          *)
(*     variables m_* and the specification Spec;                           *)
(*   - the vertex-based legacy one (lines 15-319), modelled by the         *)
(*     variables legacy_m_* and the specification SpecLegacy.              *)
(*                                                                         *)
(* A texture is identified by its address; addresses are modelled as the   *)
(* integers 1..NumTextures ordered as the pointers are, NULL is nullptr.   *)
(* A request's geometry (position, size, origin, rotation, colour, uv) is  *)
(* modelled by the ordinal of the Draw call that supplied it.  A cell of a *)
(* mapped GPU buffer is modelled by the number of the End call that wrote  *)
(* it, commandBuffer by the commands the call just made recorded.          *)
(***************************************************************************)
EXTENDS Integers, Sequences, FiniteSets, TLC

\* ---------------------------------------------------------------- bounds
MaxCapacity == 3     \* largest maxSprites a constructed engine is given
MaxExtra == 2        \* Draw calls tried beyond the capacity in one cycle
NumTextures == 3     \* distinct texture objects alive (white one included)
NumCameras == 2      \* distinct Camera2D objects
MaxCycles == 2       \* completed Begin/End cycles explored
MaxRenders == 2      \* Render calls explored between two other calls
MaxSamplerChanges == 1  \* samplers re-created by SetFilter and SetWrap
TextureCapacity == 2    \* maxSprites of the engine whose textures change modes
MaxCpuTimeMs == 1    \* largest wall-clock reading of End's timer
MaxCoord == 1        \* largest camera coordinate and rotation step
MaxZoomTenths == 10  \* largest zoom explored, in tenths
MaxViewport == 2     \* largest viewport width and height
NumKeys == 2         \* keys of the keyboard
MaxScroll == 1       \* largest wheel offset of one scroll event
MaxInstances == 2    \* sound instances ever started
MaxFadeTime == 1     \* longest fade-in or fade-out time, in seconds
MaxDeltaTime == 1    \* longest frame time passed to AudioManager::Update
SoundFrames == 1     \* totalFrames of the sound data played
MaxTextLen == 3      \* longest text, in bytes, passed to the TextRenderer
MaxTextCalls == 1    \* TextRenderer calls in one Begin/End cycle
MaxShadowLen == 1    \* longest text drawn among other sprites

\* ------------------------------------------------------- program constants
FRAME_BUFFER_COUNT == 2
MAX_FRAMES_IN_FLIGHT == 2
NULL == 0
WhiteTexture == 2

Textures == 1..NumTextures
\* m_WhiteTexture is private and has no accessor: callers hold the others.
CallerTextures == (Textures \ {WhiteTexture}) \cup {NULL}
Cameras == 1..NumCameras
NoError == "none"

\* ------------------------------------------------------------------ state
VARIABLES
    m_MaxSprites, m_IsBatching, m_EnableTextureSorting, m_CurrentCamera,
    m_SpriteDataList, m_Instances, m_Batches, m_Vertices, m_Indices,
    m_Statistics, m_CurrentFrameIndex, m_FrameData,
    m_VertexBuffer, m_IndexBuffer, m_DescriptorSets, descriptorWrites,
    legacy_m_IsBatching, legacy_m_CurrentCamera, legacy_m_Vertices, legacy_m_Indices,
    legacy_m_Batches, legacy_m_CurrentTexture, legacy_m_SpriteCount,
    legacy_m_DrawCallCount, legacy_m_VertexBuffer, legacy_m_IndexBuffer,
    legacy_m_DescriptorSets, legacy_overrun,
    commandBuffer,
    lastCall, thrown, submitted, accepted, cycles, renders,
    m_CurrentFrame, m_InFlightFences, m_CommandBuffers, framePc,
    ran, outcome, frameAtStart, everSkipped,
    m_Position, m_Rotation, m_Zoom, m_ViewportWidth, m_ViewportHeight,
    m_ViewMatrix, m_ProjectionMatrix, m_ViewDirty, m_ProjectionDirty,
    cameraCall, zoomArg, returned, nanPassed,
    m_CurrentKeys, m_PreviousKeys, m_ScrollDelta, inputPc,
    wentDown, wentUp, wheel, seenPressed, seenReleased, seenScroll,
    playingSounds, nextInstanceId, m_CurrentBGM, m_Mutex,
    audioPc, raced, crashed, audioCall,
    issued, textArgs, textCalls,
    m_Filter, m_Wrap, m_Sampler, samplersCreated

engineVars == <<m_MaxSprites, m_IsBatching, m_EnableTextureSorting, m_CurrentCamera,
    m_SpriteDataList, m_Instances, m_Batches, m_Vertices, m_Indices,
    m_Statistics, m_CurrentFrameIndex, m_FrameData,
    m_VertexBuffer, m_IndexBuffer, m_DescriptorSets, descriptorWrites>>

\* The fields of the vertex-based implementation (SpriteBatch.h); m_MaxSprites
\* is the constructor argument of either implementation.  legacy_overrun is
\* set once a memcpy of End has written past the end of a mapped buffer.
legacyVars == <<legacy_m_IsBatching, legacy_m_CurrentCamera, legacy_m_Vertices,
    legacy_m_Indices, legacy_m_Batches, legacy_m_CurrentTexture, legacy_m_SpriteCount,
    legacy_m_DrawCallCount, legacy_m_VertexBuffer, legacy_m_IndexBuffer,
    legacy_m_DescriptorSets, legacy_overrun>>

\* Renderer2D (src/unnamed/part_005, Renderer2D.h 47-60): the frame slot in
\* use, the fence and the command buffer of each slot, and the position of
\* Engine::Run from the minimized test and BeginFrame through the calls of
\* the render callback to EndFrame.  ran lists what the current iteration
\* of Engine::Run has invoked of BeginFrame, the render callback and
\* EndFrame; outcome is "skipped" once the window was found minimized or
\* BeginFrame returned false in it, "passed" once BeginFrame returned true
\* and "none" before that; frameAtStart is m_CurrentFrame at its start, and everSkipped tells
\* whether some iteration has been skipped.
iterationVars == <<ran, outcome, frameAtStart, everSkipped>>
rendererVars == <<m_CurrentFrame, m_InFlightFences, m_CommandBuffers, framePc,
                  iterationVars>>

\* Camera2D (src/include/Vulkan2D/Core/Window.h 94-103).  cameraCall names
\* the member function called last, zoomArg is its argument when it is
\* SetZoom or Zoom (0 otherwise), returned the matrix it returned when it is
\* a getter (the identity otherwise), and nanPassed tells whether a NaN has
\* been passed to SetZoom or Zoom.
cameraVars == <<m_Position, m_Rotation, m_Zoom, m_ViewportWidth, m_ViewportHeight,
    m_ViewMatrix, m_ProjectionMatrix, m_ViewDirty, m_ProjectionDirty,
    cameraCall, zoomArg, returned, nanPassed>>

\* InputManager (src/unnamed/part_001 104-111) and the position of
\* Engine::Run among PollEvents, InputManager::Update and the update
\* callback.  wentDown and wentUp are the keys whose state the last poll
\* changed, wheel the scroll offsets it delivered; seenPressed, seenReleased
\* and seenScroll are what IsKeyPressed, IsKeyReleased and GetScrollDelta
\* returned inside the last update callback.
inputVars == <<m_CurrentKeys, m_PreviousKeys, m_ScrollDelta, inputPc,
    wentDown, wentUp, wheel, seenPressed, seenReleased, seenScroll>>

\* AudioManager (src/unnamed/part_000 350-, AudioManager.cpp 21-64): the
\* table Impl::playingSounds, Impl::nextInstanceId, m_CurrentBGM and the
\* holder of m_Mutex.  audioPc is the position of the audio device thread,
\* raced tells whether the main thread has touched the table while that
\* thread was inside ProcessAudio, crashed whether the process has died of
\* it, and audioCall names the step taken last with its arguments.
audioVars == <<playingSounds, nextInstanceId, m_CurrentBGM, m_Mutex,
    audioPc, raced, crashed, audioCall>>

\* TextRenderer (src/src/Graphics/Sprite.cpp 249-394) has no state of its
\* own.  issued lists the SpriteBatch::Draw calls its functions have made in
\* the current cycle, each with the number of the TextRenderer call, the
\* layer it belongs to, its code point, its texture and the ordinal the
\* request got; textArgs holds the font and the text of the last call and
\* textCalls counts the calls of the cycle.
textVars == <<issued, textArgs, textCalls>>

\* The fields of the Texture objects (Texture.h 69-72): the sampler handle
\* each texture owns, named by the number of the vkCreateSampler call that
\* made it, and the filter and wrap modes it was made for.
textureVars == <<m_Filter, m_Wrap, m_Sampler, samplersCreated>>

\* The state of the objects a SpriteBatch call never touches.
collaboratorVars == <<rendererVars, cameraVars, inputVars, audioVars, textVars,
                      textureVars>>

vars == <<engineVars, legacyVars, commandBuffer, lastCall, thrown,
          submitted, accepted, cycles, renders, collaboratorVars>>

\* ------------------------------------------------------- pure helpers
RECURSIVE SumSeq(_)
SumSeq(s) == IF s = <<>> THEN 0 ELSE Head(s) + SumSeq(Tail(s))

\* BatchStatistics{} : every counter zero.
ZeroStatistics ==
    [spriteCount |-> 0, drawCallCount |-> 0, instancedBatches |-> 0,
     textureBindCount |-> 0, cpuTimeMs |-> 0]

\* memcpy(dst, src, n) by End number frame: the first n cells are
\* overwritten, the rest keep what an earlier copy left there.
Memcpy(dst, src, frame) ==
    [i \in 1..Len(src) |-> frame] \o SubSeq(dst, Len(src) + 1, Len(dst))

\* if (!texture) texture = m_WhiteTexture.get();
SubstituteKeepsNull(texture) == texture
SubstituteWhite(texture) == IF texture = NULL THEN WhiteTexture ELSE texture

\* m_SpriteDataList.size() >= m_MaxSprites
AtCapacityOffByOne(list, maxSprites) == Len(list) > maxSprites
AtCapacity(list, maxSprites) == Len(list) >= maxSprites

\* SpriteData built by Draw: the texture key and the instance record.
SpriteData(texture, ordinal) == [texture |-> texture, instance |-> ordinal]

\* One step of std::stable_sort with the comparator a.texture < b.texture:
\* x goes behind every element that is not greater than it.
UnstableInsert(s, x) ==
    LET k == Cardinality({i \in 1..Len(s) : s[i].texture < x.texture})
    IN  SubSeq(s, 1, k) \o <<x>> \o SubSeq(s, k + 1, Len(s))
StableInsert(s, x) ==
    LET k == Cardinality({i \in 1..Len(s) : ~(x.texture < s[i].texture)})
    IN  SubSeq(s, 1, k) \o <<x>> \o SubSeq(s, k + 1, Len(s))

RECURSIVE StableSort(_)
StableSort(s) ==
    IF s = <<>> THEN <<>>
    ELSE StableInsert(StableSort(SubSeq(s, 1, Len(s) - 1)), s[Len(s)])

\* SpriteBatch::SortBatches
SortBatchesSkipped(list, enable) == list
SortBatches(list, enable) ==
    IF ~enable \/ list = <<>> THEN list ELSE StableSort(list)

\* The batch BuildBatches pushes when the texture changes at index i.
PreviousBatchShort(cur, start, i) ==
    IF cur # NULL /\ i > start
    THEN <<[texture |-> cur, startInstance |-> start, instanceCount |-> i - start - 1]>>
    ELSE <<>>
PreviousBatch(cur, start, i) ==
    IF cur # NULL /\ i > start
    THEN <<[texture |-> cur, startInstance |-> start, instanceCount |-> i - start]>>
    ELSE <<>>

\* The batch BuildBatches pushes after the loop.
FinalBatchDropped(list, cur, start) == <<>>
FinalBatch(list, cur, start) ==
    IF cur # NULL
    THEN <<[texture |-> cur, startInstance |-> start,
            instanceCount |-> Len(list) - start]>>
    ELSE <<>>

\* The loop of BuildBatches from index i (0-based) on; the result is the
\* pair of m_Batches and m_Instances after the function.
RECURSIVE BuildLoop(_, _, _, _, _, _)
BuildLoop(list, i, cur, start, batches, instances) ==
    IF i >= Len(list)
    THEN [batches |-> batches \o FinalBatch(list, cur, start), instances |-> instances]
    ELSE LET spriteData == list[i + 1]
             changed == spriteData.texture # cur
         IN  BuildLoop(list, i + 1,
                       IF changed THEN spriteData.texture ELSE cur,
                       IF changed THEN i ELSE start,
                       IF changed THEN batches \o PreviousBatch(cur, start, i) ELSE batches,
                       Append(instances, spriteData.instance))

\* SpriteBatch::BuildBatches
BuildBatches(list, batches, instances) ==
    IF list = <<>> THEN [batches |-> batches, instances |-> instances]
    ELSE BuildLoop(list, 0, NULL, 0, batches, instances)

\* The four Vertex2D End pushes for one request (corner k of its quad).
QuadVertices(inst) == [k \in 1..4 |-> [instance |-> inst, corner |-> k - 1]]

\* The six indices End pushes for the quad whose first vertex is baseVertex.
QuadIndices(baseVertex) ==
    <<baseVertex + 0, baseVertex + 1, baseVertex + 2,
      baseVertex + 2, baseVertex + 3, baseVertex + 0>>

\* The legacy vertex generation loop of End.
RECURSIVE GenerateVertices(_, _, _)
GenerateVertices(list, vertices, indices) ==
    IF list = <<>> THEN [vertices |-> vertices, indices |-> indices]
    ELSE GenerateVertices(Tail(list),
                          vertices \o QuadVertices(Head(list).instance),
                          indices \o QuadIndices(Len(vertices)))

\* SpriteBatch::UploadInstanceData
UploadInstanceDataNextSlot(frameData, frameIndex, instances, frame) ==
    IF instances = <<>> THEN frameData
    ELSE [frameData EXCEPT ![(frameIndex + 1) % FRAME_BUFFER_COUNT] =
            [instanceStagingBuffer |-> Memcpy(@.instanceStagingBuffer, instances, frame),
             needsUpload |-> TRUE]]
UploadInstanceData(frameData, frameIndex, instances, frame) ==
    IF instances = <<>> THEN frameData
    ELSE [frameData EXCEPT ![frameIndex] =
            [instanceStagingBuffer |-> Memcpy(@.instanceStagingBuffer, instances, frame),
             needsUpload |-> TRUE]]

\* A float is a multiple of 0.1, counted in tenths, or a NaN; a comparison
\* with a NaN is false and a sum with a NaN is a NaN.
Float(tenths) == [nan |-> FALSE, tenths |-> tenths]
NaN == [nan |-> TRUE, tenths |-> 0]
FloatLess(a, b) == ~a.nan /\ ~b.nan /\ a.tenths < b.tenths
FloatAdd(a, b) == IF a.nan \/ b.nan THEN NaN ELSE Float(a.tenths + b.tenths)

\* 0.1f, the smallest zoom SetZoom and Zoom leave in place.
MinZoom == Float(1)

\* if (m_Zoom < 0.1f) m_Zoom = 0.1f;
ClampZoomSkipped(zoom) == zoom
ClampZoom(zoom) == IF FloatLess(zoom, MinZoom) THEN MinZoom ELSE zoom

\* The matrix UpdateViewMatrix builds: scale by the zoom, rotate by the
\* rotation, translate by the negated position.
ViewMatrixOf(position, rotation, zoom) ==
    [scale |-> zoom, rotate |-> rotation,
     translate |-> <<0 - position[1], 0 - position[2]>>]

\* The matrix UpdateProjectionMatrix builds: glm::ortho(0, width, 0, height, -1, 1).
ProjectionMatrixOf(width, height) ==
    [left |-> 0, right |-> width, bottom |-> 0, top |-> height, near |-> -1, far |-> 1]

\* glm::mat4{1.0f}
IdentityMatrix == [identity |-> TRUE]

\* ------------------------------------------------------------------- Init
Init ==
    /\ m_MaxSprites \in 0..MaxCapacity
    /\ m_IsBatching = FALSE
    /\ m_EnableTextureSorting = TRUE
    /\ m_CurrentCamera = NULL
    /\ m_SpriteDataList = <<>>
    /\ m_Instances = <<>>
    /\ m_Batches = <<>>
    /\ m_Vertices = <<>>
    /\ m_Indices = <<>>
    /\ m_Statistics = ZeroStatistics
    /\ m_CurrentFrameIndex = 0
    /\ m_FrameData = [i \in 0..(FRAME_BUFFER_COUNT - 1) |->
                        [instanceStagingBuffer |-> <<>>, needsUpload |-> FALSE]]
    /\ m_VertexBuffer = <<>>
    /\ m_IndexBuffer = <<>>
    /\ m_DescriptorSets = <<>>
    /\ descriptorWrites = <<>>
    /\ legacy_m_IsBatching = FALSE
    /\ legacy_m_CurrentCamera = NULL
    /\ legacy_m_Vertices = <<>>
    /\ legacy_m_Indices = <<>>
    /\ legacy_m_Batches = <<>>
    /\ legacy_m_CurrentTexture = NULL
    /\ legacy_m_SpriteCount = 0
    /\ legacy_m_DrawCallCount = 0
    /\ legacy_m_VertexBuffer = <<>>
    /\ legacy_m_IndexBuffer = <<>>
    /\ legacy_m_DescriptorSets = <<>>
    /\ legacy_overrun = FALSE
    /\ commandBuffer = <<>>
    /\ lastCall = "SpriteBatch"
    /\ thrown = NoError
    /\ submitted = 0
    /\ accepted = <<>>
    /\ cycles = 0
    /\ renders = 0
    /\ m_CurrentFrame = 0
    /\ m_InFlightFences = [i \in 0..(MAX_FRAMES_IN_FLIGHT - 1) |-> "signaled"]
    /\ m_CommandBuffers = [i \in 0..(MAX_FRAMES_IN_FLIGHT - 1) |-> <<>>]
    /\ framePc = "IsMinimized"
    /\ ran = <<>>
    /\ outcome = "none"
    /\ frameAtStart = 0
    /\ everSkipped = FALSE
    /\ m_Position = <<0, 0>>
    /\ m_Rotation = 0
    /\ m_Zoom = Float(10)
    /\ m_ViewportWidth = 1
    /\ m_ViewportHeight = 1
    /\ m_ViewMatrix = ViewMatrixOf(m_Position, m_Rotation, m_Zoom)
    /\ m_ProjectionMatrix = ProjectionMatrixOf(m_ViewportWidth, m_ViewportHeight)
    /\ m_ViewDirty = FALSE
    /\ m_ProjectionDirty = FALSE
    /\ cameraCall = "Camera2D"
    /\ zoomArg = Float(0)
    /\ returned = IdentityMatrix
    /\ nanPassed = FALSE
    /\ m_CurrentKeys = [k \in 1..NumKeys |-> FALSE]
    /\ m_PreviousKeys = [k \in 1..NumKeys |-> FALSE]
    /\ m_ScrollDelta = 0
    /\ inputPc = "PollEvents"
    /\ wentDown = {}
    /\ wentUp = {}
    /\ wheel = <<>>
    /\ seenPressed = [k \in 1..NumKeys |-> FALSE]
    /\ seenReleased = [k \in 1..NumKeys |-> FALSE]
    /\ seenScroll = 0
    /\ playingSounds = [id \in {} |-> 0]
    /\ nextInstanceId = 1
    /\ m_CurrentBGM = 0
    /\ m_Mutex = "free"
    /\ audioPc = "idle"
    /\ raced = FALSE
    /\ crashed = FALSE
    /\ audioCall = [op |-> "AudioManager", id |-> 0, time |-> 0]
    /\ issued = <<>>
    /\ textArgs = [font |-> NULL, text |-> <<>>]
    /\ textCalls = 0
    /\ m_Filter = [texture \in Textures |-> "Linear"]
    /\ m_Wrap = [texture \in Textures |-> "Repeat"]
    /\ m_Sampler = [texture \in Textures |-> texture]
    /\ samplersCreated = NumTextures


\* ------------------------------------------------------- Begin (565-582)
ghostVars == <<legacyVars, submitted, accepted, cycles, renders>>

\* if (m_IsBatching) throw ...  : nothing has been touched yet.
BeginRejectedAfterClear ==
    /\ thrown' = "SpriteBatch::Begin called without ending previous batch"
    /\ m_SpriteDataList' = <<>>
    /\ UNCHANGED <<m_MaxSprites, m_IsBatching, m_EnableTextureSorting, m_CurrentCamera,
                   m_Instances, m_Batches, m_Vertices, m_Indices,
                   m_Statistics, m_CurrentFrameIndex, m_FrameData,
                   m_VertexBuffer, m_IndexBuffer, m_DescriptorSets, descriptorWrites>>
    /\ UNCHANGED ghostVars
BeginRejected ==
    /\ thrown' = "SpriteBatch::Begin called without ending previous batch"
    /\ UNCHANGED <<engineVars, ghostVars>>

BeginAcceptedKeepsInstances(camera) ==
    /\ cycles < MaxCycles
    /\ thrown' = NoError
    /\ m_IsBatching' = TRUE
    /\ m_CurrentCamera' = camera
    /\ m_SpriteDataList' = <<>>
    /\ m_Batches' = <<>>
    /\ m_Vertices' = <<>>
    /\ m_Indices' = <<>>
    /\ m_Statistics' = ZeroStatistics
    /\ submitted' = 0
    /\ accepted' = <<>>
    /\ renders' = 0
    /\ UNCHANGED <<m_MaxSprites, m_EnableTextureSorting, m_CurrentFrameIndex, m_FrameData,
                   m_VertexBuffer, m_IndexBuffer, m_DescriptorSets, descriptorWrites,
                   cycles, legacyVars,
                   m_Instances>>
BeginAccepted(camera) ==
    /\ cycles < MaxCycles
    /\ thrown' = NoError
    /\ m_IsBatching' = TRUE
    /\ m_CurrentCamera' = camera
    /\ m_SpriteDataList' = <<>>
    /\ m_Instances' = <<>>
    /\ m_Batches' = <<>>
    /\ m_Vertices' = <<>>
    /\ m_Indices' = <<>>
    /\ m_Statistics' = ZeroStatistics
    /\ submitted' = 0
    /\ accepted' = <<>>
    /\ renders' = 0
    /\ UNCHANGED <<m_MaxSprites, m_EnableTextureSorting, m_CurrentFrameIndex, m_FrameData,
                   m_VertexBuffer, m_IndexBuffer, m_DescriptorSets, descriptorWrites,
                   cycles, legacyVars>>

BeginNeverRejects(isBatching) == FALSE
BeginRejects(isBatching) == isBatching

Begin(camera) ==
    /\ lastCall' = "Begin"
    /\ commandBuffer' = <<>>
    /\ IF BeginRejects(m_IsBatching) THEN BeginRejected ELSE BeginAccepted(camera)

\* -------------------------------------------------------- Draw (584-628)
DrawRejected ==
    /\ thrown' = "SpriteBatch::Draw called without Begin"
    /\ UNCHANGED <<engineVars, ghostVars>>

\* The body of Draw(Texture*, ...) once the caller's argument arg has
\* reached it as texture.
DrawBodyDropThrows(arg, texture) ==
    IF ~m_IsBatching THEN DrawRejected
    ELSE /\ submitted < m_MaxSprites + MaxExtra
         /\ thrown' = IF AtCapacity(m_SpriteDataList, m_MaxSprites)
                      THEN "SpriteBatch::Draw capacity exceeded" ELSE NoError
         /\ submitted' = submitted + 1
         /\ IF AtCapacity(m_SpriteDataList, m_MaxSprites)
            THEN UNCHANGED <<m_SpriteDataList, accepted>>
            ELSE /\ m_SpriteDataList' =
                        Append(m_SpriteDataList,
                               SpriteData(SubstituteWhite(texture), submitted + 1))
                 /\ accepted' = Append(accepted, [arg |-> arg, ordinal |-> submitted + 1])
         /\ UNCHANGED <<m_MaxSprites, m_IsBatching, m_EnableTextureSorting, m_CurrentCamera,
                        m_Instances, m_Batches, m_Vertices, m_Indices,
                        m_Statistics, m_CurrentFrameIndex, m_FrameData,
                        m_VertexBuffer, m_IndexBuffer, m_DescriptorSets, descriptorWrites,
                        cycles, renders, legacyVars>>
DrawBody(arg, texture) ==
    IF ~m_IsBatching THEN DrawRejected
    ELSE /\ submitted < m_MaxSprites + MaxExtra
         /\ thrown' = NoError
         /\ submitted' = submitted + 1
         /\ IF AtCapacity(m_SpriteDataList, m_MaxSprites)
            THEN UNCHANGED <<m_SpriteDataList, accepted>>
            ELSE /\ m_SpriteDataList' =
                        Append(m_SpriteDataList,
                               SpriteData(SubstituteWhite(texture), submitted + 1))
                 /\ accepted' = Append(accepted, [arg |-> arg, ordinal |-> submitted + 1])
         /\ UNCHANGED <<m_MaxSprites, m_IsBatching, m_EnableTextureSorting, m_CurrentCamera,
                        m_Instances, m_Batches, m_Vertices, m_Indices,
                        m_Statistics, m_CurrentFrameIndex, m_FrameData,
                        m_VertexBuffer, m_IndexBuffer, m_DescriptorSets, descriptorWrites,
                        cycles, renders, legacyVars>>

\* Draw(Texture* texture, position, size, [uvMin, uvMax,] color, rotation, origin)
Draw(texture) ==
    /\ lastCall' = "Draw"
    /\ commandBuffer' = <<>>
    /\ DrawBody(texture, texture)

\* Draw(const Sprite& sprite): spriteTexture is sprite.GetTexture().get()
DrawSprite(spriteTexture) ==
    /\ lastCall' = "DrawSprite"
    /\ commandBuffer' = <<>>
    /\ DrawBody(spriteTexture, SubstituteWhite(spriteTexture))

\* --------------------------------------------------------- End (699-777)
EndRejected ==
    /\ thrown' = "SpriteBatch::End called without Begin"
    /\ UNCHANGED <<engineVars, ghostVars>>

\* The statistics End stores (764-771): the sizes of m_SpriteDataList and
\* m_Batches and the elapsed time of the call.
FinalStatisticsCountsSubmitted(list, batches, cpuTimeMs) ==
    [spriteCount |-> submitted, drawCallCount |-> Len(batches),
     instancedBatches |-> 0, textureBindCount |-> Len(batches),
     cpuTimeMs |-> cpuTimeMs]
FinalStatistics(list, batches, cpuTimeMs) ==
    [spriteCount |-> Len(list), drawCallCount |-> Len(batches),
     instancedBatches |-> 0, textureBindCount |-> Len(batches),
     cpuTimeMs |-> cpuTimeMs]

EndAccepted(cpuTimeMs) ==
    LET sorted == SortBatches(m_SpriteDataList, m_EnableTextureSorting)
        built == BuildBatches(sorted, m_Batches, m_Instances)
        gen == GenerateVertices(sorted, m_Vertices, m_Indices)
    IN  /\ thrown' = NoError
        /\ m_SpriteDataList' = sorted
        /\ m_Batches' = built.batches
        /\ m_Instances' = built.instances
        /\ m_FrameData' = UploadInstanceData(m_FrameData, m_CurrentFrameIndex, built.instances, cycles + 1)
        /\ m_Vertices' = gen.vertices
        /\ m_Indices' = gen.indices
        /\ m_VertexBuffer' = IF gen.vertices # <<>>
                             THEN Memcpy(m_VertexBuffer, gen.vertices, cycles + 1)
                             ELSE m_VertexBuffer
        /\ m_IndexBuffer' = IF gen.indices # <<>>
                            THEN Memcpy(m_IndexBuffer, gen.indices, cycles + 1)
                            ELSE m_IndexBuffer
        /\ m_Statistics' = FinalStatistics(sorted, built.batches, cpuTimeMs)
        /\ m_IsBatching' = FALSE
        /\ m_CurrentFrameIndex' = (m_CurrentFrameIndex + 1) % FRAME_BUFFER_COUNT
        /\ cycles' = cycles + 1
        /\ renders' = 0
        /\ UNCHANGED <<m_MaxSprites, m_EnableTextureSorting, m_CurrentCamera,
                       m_DescriptorSets, descriptorWrites, submitted, accepted, legacyVars>>

End ==
    /\ lastCall' = "End"
    /\ commandBuffer' = <<>>
    /\ IF ~m_IsBatching THEN EndRejected
       ELSE \E cpuTimeMs \in 0..MaxCpuTimeMs : EndAccepted(cpuTimeMs)

\* ------------------------------------------------------ Render (779-822)
\* GetOrCreateDescriptorSet: the cache after the lookup of texture; a new
\* descriptor set is named by its allocation number.
GetOrCreateDescriptorSetNoLookup(descriptorSets, texture) ==
    (texture :> (Cardinality(DOMAIN descriptorSets) + 1)) @@ descriptorSets
GetOrCreateDescriptorSet(descriptorSets, texture) ==
    IF texture \in DOMAIN descriptorSets THEN descriptorSets
    ELSE (texture :> (Cardinality(DOMAIN descriptorSets) + 1)) @@ descriptorSets

\* Texture::GetDescriptorInfo (1065-1071): the image view, made once by the
\* constructor and named by its texture, and the sampler the texture owns.
GetDescriptorInfo(texture) == [imageView |-> texture, sampler |-> m_Sampler[texture]]

\* The vkUpdateDescriptorSets calls of GetOrCreateDescriptorSet (548-560):
\* each descriptor set allocated by this Render is written, once, with the
\* descriptor info of its texture; the sets of the cache are not written.
vkUpdateDescriptorSets(writes, descriptorSets) ==
    [set \in {descriptorSets[texture] : texture \in DOMAIN descriptorSets} |->
        IF set \in DOMAIN writes THEN writes[set]
        ELSE GetDescriptorInfo(CHOOSE texture \in DOMAIN descriptorSets :
                                  descriptorSets[texture] = set)]

\* indexOffset += indexCount;
NextIndexOffsetStuck(indexOffset, indexCount) == indexOffset
NextIndexOffset(indexOffset, indexCount) == indexOffset + indexCount

\* The per-batch loop of Render.
RECURSIVE RenderLoop(_, _, _, _)
RenderLoop(batches, indexOffset, descriptorSets, commands) ==
    IF batches = <<>> THEN [descriptorSets |-> descriptorSets, commands |-> commands]
    ELSE LET batch == Head(batches)
             sets == GetOrCreateDescriptorSet(descriptorSets, batch.texture)
             indexCount == batch.instanceCount * 6
         IN  RenderLoop(Tail(batches), NextIndexOffset(indexOffset, indexCount), sets,
                        commands \o
                        <<[op |-> "vkCmdBindDescriptorSets", texture |-> batch.texture,
                           descriptorSet |-> sets[batch.texture]],
                          [op |-> "vkCmdDrawIndexed", indexCount |-> indexCount,
                           firstIndex |-> indexOffset]>>)

\* The commands Render records ahead of the batch loop.
RenderPrologue(camera) ==
    <<[op |-> "Pipeline::Bind"], [op |-> "vkCmdSetViewport"], [op |-> "vkCmdSetScissor"],
      [op |-> "vkCmdPushConstants", camera |-> camera],
      [op |-> "vkCmdBindVertexBuffers", buffer |-> "m_VertexBuffer"],
      [op |-> "vkCmdBindIndexBuffer", buffer |-> "m_IndexBuffer"]>>

RenderConsumesBatches ==
    /\ renders < MaxRenders
    /\ lastCall' = "Render"
    /\ thrown' = NoError
    /\ renders' = renders + 1
    /\ LET r == RenderLoop(m_Batches, 0, m_DescriptorSets, RenderPrologue(m_CurrentCamera))
       IN  /\ commandBuffer' = IF m_Batches = <<>> THEN <<>> ELSE r.commands
           /\ m_DescriptorSets' = r.descriptorSets
           /\ descriptorWrites' = vkUpdateDescriptorSets(descriptorWrites, r.descriptorSets)
    /\ m_Batches' = <<>>
    /\ UNCHANGED <<m_MaxSprites, m_IsBatching, m_EnableTextureSorting, m_CurrentCamera,
                   m_SpriteDataList, m_Instances, m_Vertices, m_Indices,
                   m_Statistics, m_CurrentFrameIndex, m_FrameData,
                   m_VertexBuffer, m_IndexBuffer, submitted, accepted, cycles,
                   legacyVars>>
RenderWithoutEarlyReturn ==
    /\ renders < MaxRenders
    /\ lastCall' = "Render"
    /\ thrown' = NoError
    /\ renders' = renders + 1
    /\ LET r == RenderLoop(m_Batches, 0, m_DescriptorSets, RenderPrologue(m_CurrentCamera))
       IN  /\ commandBuffer' = r.commands
           /\ m_DescriptorSets' = r.descriptorSets
           /\ descriptorWrites' = vkUpdateDescriptorSets(descriptorWrites, r.descriptorSets)
    /\ UNCHANGED <<m_MaxSprites, m_IsBatching, m_EnableTextureSorting, m_CurrentCamera,
                   m_SpriteDataList, m_Instances, m_Batches, m_Vertices, m_Indices,
                   m_Statistics, m_CurrentFrameIndex, m_FrameData,
                   m_VertexBuffer, m_IndexBuffer, submitted, accepted, cycles,
                   legacyVars>>
Render ==
    /\ renders < MaxRenders
    /\ lastCall' = "Render"
    /\ thrown' = NoError
    /\ renders' = renders + 1
    /\ IF m_Batches = <<>>
       THEN /\ commandBuffer' = <<>>
            /\ UNCHANGED <<m_DescriptorSets, descriptorWrites>>
       ELSE LET r == RenderLoop(m_Batches, 0, m_DescriptorSets,
                                RenderPrologue(m_CurrentCamera))
            IN  /\ commandBuffer' = r.commands
                /\ m_DescriptorSets' = r.descriptorSets
                /\ descriptorWrites' =
                       vkUpdateDescriptorSets(descriptorWrites, r.descriptorSets)
    /\ UNCHANGED <<m_MaxSprites, m_IsBatching, m_EnableTextureSorting, m_CurrentCamera,
                   m_SpriteDataList, m_Instances, m_Batches, m_Vertices, m_Indices,
                   m_Statistics, m_CurrentFrameIndex, m_FrameData,
                   m_VertexBuffer, m_IndexBuffer, submitted, accepted, cycles,
                   legacyVars>>

\* ---------------------------------- SetTextureSortingEnabled (header 194)
SetTextureSortingEnabled(enabled) ==
    /\ lastCall' = "SetTextureSortingEnabled"
    /\ commandBuffer' = <<>>
    /\ thrown' = NoError
    /\ m_EnableTextureSorting' = enabled
    /\ UNCHANGED <<m_MaxSprites, m_IsBatching, m_CurrentCamera,
                   m_SpriteDataList, m_Instances, m_Batches, m_Vertices, m_Indices,
                   m_Statistics, m_CurrentFrameIndex, m_FrameData,
                   m_VertexBuffer, m_IndexBuffer, m_DescriptorSets, descriptorWrites, ghostVars>>

Next ==
    \/ \E camera \in Cameras : Begin(camera) /\ UNCHANGED collaboratorVars
    \/ \E texture \in CallerTextures : Draw(texture) /\ UNCHANGED collaboratorVars
    \/ \E spriteTexture \in CallerTextures :
           DrawSprite(spriteTexture) /\ UNCHANGED collaboratorVars
    \/ End /\ UNCHANGED collaboratorVars
    \/ Render /\ UNCHANGED collaboratorVars
    \/ \E enabled \in BOOLEAN :
           SetTextureSortingEnabled(enabled) /\ UNCHANGED collaboratorVars

Spec == Init /\ [][Next]_vars

\* ======================================================================
\* The vertex-based implementation (SpriteBatch.cpp 15-319).
harnessVars == <<submitted, accepted, cycles, renders>>

\* --------------------------------------------------- Begin (141-154)
LegacyBegin(camera) ==
    /\ lastCall' = "Begin"
    /\ commandBuffer' = <<>>
    /\ IF legacy_m_IsBatching
       THEN /\ thrown' = "SpriteBatch::Begin called without ending previous batch"
            /\ UNCHANGED <<legacyVars, harnessVars>>
       ELSE /\ cycles < MaxCycles
            /\ thrown' = NoError
            /\ legacy_m_IsBatching' = TRUE
            /\ legacy_m_CurrentCamera' = camera
            /\ legacy_m_Vertices' = <<>>
            /\ legacy_m_Indices' = <<>>
            /\ legacy_m_Batches' = <<>>
            /\ legacy_m_SpriteCount' = 0
            /\ legacy_m_DrawCallCount' = 0
            /\ legacy_m_CurrentTexture' = NULL
            /\ submitted' = 0
            /\ renders' = 0
            /\ UNCHANGED <<legacy_m_VertexBuffer, legacy_m_IndexBuffer,
                           legacy_m_DescriptorSets, legacy_overrun, cycles, accepted>>
    /\ UNCHANGED engineVars

\* The batch Draw and End record for the run of m_CurrentTexture that ends
\* at the current end of m_Indices.
LegacyRecordBatch(batches, indices, currentTexture) ==
    LET startIndex == IF batches = <<>> THEN 0
                      ELSE batches[Len(batches)].startIndex + batches[Len(batches)].indexCount
        indexCount == Len(indices) - startIndex
    IN  IF indexCount > 0
        THEN Append(batches, [texture |-> currentTexture, startIndex |-> startIndex,
                              indexCount |-> indexCount])
        ELSE batches

\* --------------------------------------------------- Draw (156-241)
\* Flush() (274-277) has an empty body: a Draw at capacity goes on.
LegacyDrawBody(argTexture) ==
    IF ~legacy_m_IsBatching
    THEN /\ thrown' = "SpriteBatch::Draw called without Begin"
         /\ UNCHANGED <<legacyVars, harnessVars>>
    ELSE LET texture == SubstituteWhite(argTexture)
         IN  /\ submitted < m_MaxSprites + MaxExtra
             /\ thrown' = NoError
             /\ submitted' = submitted + 1
             /\ UNCHANGED accepted
             /\ legacy_m_Batches' =
                    IF texture # legacy_m_CurrentTexture /\ legacy_m_CurrentTexture # NULL
                    THEN LegacyRecordBatch(legacy_m_Batches, legacy_m_Indices,
                                           legacy_m_CurrentTexture)
                    ELSE legacy_m_Batches
             /\ legacy_m_CurrentTexture' = texture
             /\ legacy_m_Vertices' =
                    legacy_m_Vertices \o QuadVertices(legacy_m_SpriteCount + 1)
             /\ legacy_m_Indices' = legacy_m_Indices \o QuadIndices(Len(legacy_m_Vertices))
             /\ legacy_m_SpriteCount' = legacy_m_SpriteCount + 1
             /\ UNCHANGED <<legacy_m_IsBatching, legacy_m_CurrentCamera,
                            legacy_m_DrawCallCount, legacy_m_VertexBuffer,
                            legacy_m_IndexBuffer, legacy_m_DescriptorSets,
                            legacy_overrun, cycles, renders>>

LegacyDraw(texture) ==
    /\ lastCall' = "Draw"
    /\ commandBuffer' = <<>>
    /\ LegacyDrawBody(texture)
    /\ UNCHANGED engineVars

LegacyDrawSprite(spriteTexture) ==
    /\ lastCall' = "DrawSprite"
    /\ commandBuffer' = <<>>
    /\ LegacyDrawBody(SubstituteWhite(spriteTexture))
    /\ UNCHANGED engineVars

\* ---------------------------------------------------- End (243-272)
\* memcpy into a mapped buffer of capacity cells: what lies beyond the
\* buffer is not part of it.
LegacyMemcpy(dst, src, frame, capacity) ==
    LET n == IF Len(src) > capacity THEN capacity ELSE Len(src)
    IN  [i \in 1..n |-> frame] \o SubSeq(dst, n + 1, Len(dst))

LegacyEnd ==
    /\ lastCall' = "End"
    /\ commandBuffer' = <<>>
    /\ IF ~legacy_m_IsBatching
       THEN /\ thrown' = "SpriteBatch::End called without Begin"
            /\ UNCHANGED <<legacyVars, harnessVars>>
       ELSE LET batches ==
                    IF legacy_m_CurrentTexture # NULL /\ legacy_m_Vertices # <<>>
                    THEN LegacyRecordBatch(legacy_m_Batches, legacy_m_Indices,
                                           legacy_m_CurrentTexture)
                    ELSE legacy_m_Batches
            IN  /\ thrown' = NoError
                /\ legacy_m_Batches' = batches
                /\ legacy_m_VertexBuffer' =
                       IF legacy_m_Vertices # <<>>
                       THEN LegacyMemcpy(legacy_m_VertexBuffer, legacy_m_Vertices,
                                         cycles + 1, m_MaxSprites * 4)
                       ELSE legacy_m_VertexBuffer
                /\ legacy_m_IndexBuffer' =
                       IF legacy_m_Indices # <<>>
                       THEN LegacyMemcpy(legacy_m_IndexBuffer, legacy_m_Indices,
                                         cycles + 1, m_MaxSprites * 6)
                       ELSE legacy_m_IndexBuffer
                /\ legacy_overrun' = (legacy_overrun
                                      \/ Len(legacy_m_Vertices) > m_MaxSprites * 4
                                      \/ Len(legacy_m_Indices) > m_MaxSprites * 6)
                /\ legacy_m_DrawCallCount' = Len(batches)
                /\ legacy_m_IsBatching' = FALSE
                /\ cycles' = cycles + 1
                /\ renders' = 0
                /\ UNCHANGED <<legacy_m_CurrentCamera, legacy_m_Vertices, legacy_m_Indices,
                               legacy_m_CurrentTexture, legacy_m_SpriteCount,
                               legacy_m_DescriptorSets, submitted, accepted>>
    /\ UNCHANGED engineVars

\* ------------------------------------------------- Render (279-319)
RECURSIVE LegacyRenderLoop(_, _, _)
LegacyRenderLoop(batches, descriptorSets, commands) ==
    IF batches = <<>> THEN [descriptorSets |-> descriptorSets, commands |-> commands]
    ELSE LET batch == Head(batches)
             sets == GetOrCreateDescriptorSet(descriptorSets, batch.texture)
         IN  LegacyRenderLoop(Tail(batches), sets,
                        commands \o
                        <<[op |-> "vkCmdBindDescriptorSets", texture |-> batch.texture,
                           descriptorSet |-> sets[batch.texture]],
                          [op |-> "vkCmdDrawIndexed", indexCount |-> batch.indexCount,
                           firstIndex |-> batch.startIndex]>>)

LegacyRender ==
    /\ renders < MaxRenders
    /\ lastCall' = "Render"
    /\ thrown' = NoError
    /\ renders' = renders + 1
    /\ IF legacy_m_Batches = <<>>
       THEN /\ commandBuffer' = <<>>
            /\ UNCHANGED legacy_m_DescriptorSets
       ELSE LET r == LegacyRenderLoop(legacy_m_Batches, legacy_m_DescriptorSets,
                                      RenderPrologue(legacy_m_CurrentCamera))
            IN  /\ commandBuffer' = r.commands
                /\ legacy_m_DescriptorSets' = r.descriptorSets
    /\ UNCHANGED <<legacy_m_IsBatching, legacy_m_CurrentCamera, legacy_m_Vertices,
                   legacy_m_Indices, legacy_m_Batches, legacy_m_CurrentTexture,
                   legacy_m_SpriteCount, legacy_m_DrawCallCount, legacy_m_VertexBuffer,
                   legacy_m_IndexBuffer, legacy_overrun, submitted, accepted, cycles>>
    /\ UNCHANGED engineVars

NextLegacy ==
    \/ \E camera \in Cameras : LegacyBegin(camera) /\ UNCHANGED collaboratorVars
    \/ \E texture \in CallerTextures : LegacyDraw(texture) /\ UNCHANGED collaboratorVars
    \/ \E spriteTexture \in CallerTextures :
           LegacyDrawSprite(spriteTexture) /\ UNCHANGED collaboratorVars
    \/ LegacyEnd /\ UNCHANGED collaboratorVars
    \/ LegacyRender /\ UNCHANGED collaboratorVars

SpecLegacy == Init /\ [][NextLegacy]_vars

\* ======================================================================
\* Renderer2D frame loop (src/unnamed/part_005 67-147) around the render
\* callback of Engine::Run (src/src/Core/Engine.cpp 125-136), which drives
\* the instanced-capable SpriteBatch as the example does
\* (src/unnamed/part_000 192-291).
\* ======================================================================
FrameSlots == 0..(MAX_FRAMES_IN_FLIGHT - 1)

\* vkDeviceWaitIdle: every submitted command buffer has finished, so the
\* fence of every submission is signaled.
WaitIdle(fences) ==
    [i \in FrameSlots |-> IF fences[i] = "pending" THEN "signaled" ELSE fences[i]]

\* Engine::Run, lines 120-123: a minimized window ends the iteration
\* before BeginFrame.
IsMinimized(minimized) ==
    /\ framePc = "IsMinimized"
    /\ lastCall' = "IsMinimized"
    /\ thrown' = NoError
    /\ commandBuffer' = <<>>
    /\ ran' = <<>>
    /\ frameAtStart' = m_CurrentFrame
    /\ IF minimized
       THEN /\ framePc' = "IsMinimized"
            /\ outcome' = "skipped"
            /\ everSkipped' = TRUE
       ELSE /\ framePc' = "BeginFrame"
            /\ outcome' = "none"
            /\ UNCHANGED everSkipped
    /\ UNCHANGED <<m_CurrentFrame, m_InFlightFences, m_CommandBuffers,
                   engineVars, legacyVars, harnessVars>>

\* Renderer2D::BeginFrame.  vkWaitForFences blocks until the fence of the
\* current slot is signaled; acquired is FALSE for VK_ERROR_OUT_OF_DATE_KHR,
\* on which Engine::Run goes on to its next iteration (lines 126-128).
BeginFrameFallsThrough(acquired) ==
    /\ framePc = "BeginFrame"
    /\ cycles < MaxCycles
    /\ m_InFlightFences[m_CurrentFrame] = "signaled"
    /\ lastCall' = "BeginFrame"
    /\ thrown' = NoError
    /\ commandBuffer' = <<>>
    /\ ran' = Append(ran, "BeginFrame")
    /\ IF ~acquired
       THEN /\ m_InFlightFences' = WaitIdle(m_InFlightFences)
            /\ framePc' = "Begin"
            /\ outcome' = "skipped"
            /\ everSkipped' = TRUE
            /\ UNCHANGED m_CommandBuffers
       ELSE /\ m_InFlightFences' = [m_InFlightFences EXCEPT ![m_CurrentFrame] = "unsignaled"]
            /\ m_CommandBuffers' = [m_CommandBuffers EXCEPT ![m_CurrentFrame] = <<>>]
            /\ framePc' = "Begin"
            /\ outcome' = "passed"
            /\ UNCHANGED everSkipped
    /\ UNCHANGED <<m_CurrentFrame, frameAtStart, engineVars, legacyVars, harnessVars>>
BeginFrame(acquired) ==
    /\ framePc = "BeginFrame"
    /\ cycles < MaxCycles
    /\ m_InFlightFences[m_CurrentFrame] = "signaled"
    /\ lastCall' = "BeginFrame"
    /\ thrown' = NoError
    /\ commandBuffer' = <<>>
    /\ ran' = Append(ran, "BeginFrame")
    /\ IF ~acquired
       THEN /\ m_InFlightFences' = WaitIdle(m_InFlightFences)
            /\ framePc' = "IsMinimized"
            /\ outcome' = "skipped"
            /\ everSkipped' = TRUE
            /\ UNCHANGED m_CommandBuffers
       ELSE /\ m_InFlightFences' = [m_InFlightFences EXCEPT ![m_CurrentFrame] = "unsignaled"]
            /\ m_CommandBuffers' = [m_CommandBuffers EXCEPT ![m_CurrentFrame] = <<>>]
            /\ framePc' = "Begin"
            /\ outcome' = "passed"
            /\ UNCHANGED everSkipped
    /\ UNCHANGED <<m_CurrentFrame, frameAtStart, engineVars, legacyVars, harnessVars>>

\* The render callback of the example: batch->Begin(&camera), the Draw
\* calls, batch->End() and batch->Render(renderer->GetCurrentCommandBuffer()).
OnRenderBegin(camera) ==
    /\ framePc = "Begin"
    /\ Begin(camera)
    /\ framePc' = "Draw"
    /\ ran' = Append(ran, "onRender")
    /\ UNCHANGED <<m_CurrentFrame, m_InFlightFences, m_CommandBuffers,
                   outcome, frameAtStart, everSkipped>>

OnRenderDraw(texture) ==
    /\ framePc = "Draw"
    /\ Draw(texture)
    /\ UNCHANGED rendererVars

OnRenderEnd ==
    /\ framePc = "Draw"
    /\ End
    /\ framePc' = "Render"
    /\ UNCHANGED <<m_CurrentFrame, m_InFlightFences, m_CommandBuffers, iterationVars>>

OnRenderRender ==
    /\ framePc = "Render"
    /\ Render
    /\ m_CommandBuffers' =
           [m_CommandBuffers EXCEPT ![m_CurrentFrame] = @ \o commandBuffer']
    /\ framePc' = "EndFrame"
    /\ UNCHANGED <<m_CurrentFrame, m_InFlightFences, iterationVars>>

\* Renderer2D::EndFrame once the callback has returned.  vkQueueSubmit hands
\* the command buffer to the queue with the fence of the slot; recreate is
\* TRUE when vkQueuePresentKHR asks for a new swap chain.
EndFrameKeepsSlot(recreate) ==
    /\ framePc = "EndFrame"
    /\ lastCall' = "EndFrame"
    /\ thrown' = NoError
    /\ commandBuffer' = <<>>
    /\ LET submittedFences == [m_InFlightFences EXCEPT ![m_CurrentFrame] = "pending"]
       IN  m_InFlightFences' = IF recreate THEN WaitIdle(submittedFences)
                               ELSE submittedFences
    /\ framePc' = "IsMinimized"
    /\ ran' = Append(ran, "EndFrame")
    /\ UNCHANGED <<m_CurrentFrame, m_CommandBuffers, outcome, frameAtStart, everSkipped,
                   engineVars, legacyVars, harnessVars>>
EndFrame(recreate) ==
    /\ framePc = "EndFrame"
    /\ lastCall' = "EndFrame"
    /\ thrown' = NoError
    /\ commandBuffer' = <<>>
    /\ LET submittedFences == [m_InFlightFences EXCEPT ![m_CurrentFrame] = "pending"]
       IN  m_InFlightFences' = IF recreate THEN WaitIdle(submittedFences)
                               ELSE submittedFences
    /\ m_CurrentFrame' = (m_CurrentFrame + 1) % MAX_FRAMES_IN_FLIGHT
    /\ framePc' = "IsMinimized"
    /\ ran' = Append(ran, "EndFrame")
    /\ UNCHANGED <<m_CommandBuffers, outcome, frameAtStart, everSkipped,
                   engineVars, legacyVars, harnessVars>>

\* The queue finishes the command buffer of a slot and signals its fence.
QueueCompletes(slot) ==
    /\ m_InFlightFences[slot] = "pending"
    /\ m_InFlightFences' = [m_InFlightFences EXCEPT ![slot] = "signaled"]
    /\ UNCHANGED <<m_CurrentFrame, m_CommandBuffers, framePc, iterationVars,
                   engineVars, legacyVars, harnessVars, lastCall, thrown, commandBuffer>>

\* The state neither the renderer nor the SpriteBatch touches.
notFrameVars == <<cameraVars, inputVars, audioVars, textVars, textureVars>>

NextFrames ==
    \/ \E minimized \in BOOLEAN : IsMinimized(minimized) /\ UNCHANGED notFrameVars
    \/ \E acquired \in BOOLEAN : BeginFrame(acquired) /\ UNCHANGED notFrameVars
    \/ \E camera \in Cameras : OnRenderBegin(camera) /\ UNCHANGED notFrameVars
    \/ \E texture \in CallerTextures : OnRenderDraw(texture) /\ UNCHANGED notFrameVars
    \/ OnRenderEnd /\ UNCHANGED notFrameVars
    \/ OnRenderRender /\ UNCHANGED notFrameVars
    \/ \E recreate \in BOOLEAN : EndFrame(recreate) /\ UNCHANGED notFrameVars
    \/ \E slot \in FrameSlots : QueueCompletes(slot) /\ UNCHANGED notFrameVars

SpecFrames == Init /\ [][NextFrames]_vars

\* ======================================================================
\* The state a completed End leaves, until the next accepted Begin.
Ended == ~m_IsBatching /\ cycles > 0

TypeOK ==
    /\ m_IsBatching \in BOOLEAN
    /\ Len(m_SpriteDataList) <= m_MaxSprites
    /\ m_CurrentFrameIndex \in 0..(FRAME_BUFFER_COUNT - 1)


\* ======================================================================
\* Properties of the instanced-capable implementation (Spec) and of the
\* vertex-based one (SpecLegacy).

\* The state right after an accepted End.
JustEnded == lastCall = "End" /\ thrown = NoError

\* The arguments of the accepted requests, in submission order.
AcceptedArgs == [i \in 1..Len(accepted) |-> accepted[i].arg]

\* Batch b covers position k (1-based) of the instance list.
Covers(b, k) ==
    /\ m_Batches[b].startInstance < k
    /\ k <= m_Batches[b].startInstance + m_Batches[b].instanceCount

\* C1 (P1, batch coverage): after End the batches partition the instance
\* list of the N accepted requests: the first starts at 0, each next one
\* starts where the previous one ends, every count is >= 1 and the counts
\* sum to N.
BatchCoverage ==
    Ended =>
        LET n == Len(accepted)
            counts == [b \in 1..Len(m_Batches) |-> m_Batches[b].instanceCount]
        IN  /\ Len(m_Instances) = n
            /\ (n = 0) = (m_Batches = <<>>)
            /\ m_Batches # <<>> => m_Batches[1].startInstance = 0
            /\ \A b \in 1..(Len(m_Batches) - 1) :
                   m_Batches[b + 1].startInstance =
                       m_Batches[b].startInstance + m_Batches[b].instanceCount
            /\ \A b \in 1..Len(m_Batches) : m_Batches[b].instanceCount >= 1
            /\ SumSeq(counts) = n

BatchCoverageWitness ==
    /\ Ended
    /\ Len(accepted) = 3
    /\ Len(m_Batches) = 2
    /\ m_Batches[2].instanceCount = 2

\* C2 (P2, stability): two accepted requests of one cycle with the same
\* texture keep their submission order in the instance list End produces.
Stability ==
    Ended =>
        \A i, j \in 1..Len(accepted) :
            (i < j /\ accepted[i].arg = accepted[j].arg) =>
                \E k, l \in 1..Len(m_Instances) :
                    /\ m_Instances[k] = accepted[i].ordinal
                    /\ m_Instances[l] = accepted[j].ordinal
                    /\ k < l

StabilityWitness ==
    /\ JustEnded
    /\ m_EnableTextureSorting
    /\ AcceptedArgs = <<3, NULL, 3>>
    /\ m_Instances = <<2, 1, 3>>

\* The number of maximal runs of equal texture in a request list.
Runs(list) ==
    Cardinality({i \in 1..Len(list) : i = 1 \/ list[i].texture # list[i - 1].texture})

\* The request list a cycle would hold before End had its accepted
\* requests been submitted in the order perm.
Resubmitted(perm) ==
    LET key(ordinal) ==
            (CHOOSE d \in {m_SpriteDataList[x] : x \in 1..Len(m_SpriteDataList)} :
                 d.instance = ordinal).texture
    IN  [i \in 1..Len(accepted) |->
            SpriteData(key(accepted[perm[i]].ordinal), accepted[perm[i]].ordinal)]

CapacityClamp ==
    (Ended /\ submitted >= m_MaxSprites) =>
        /\ Len(m_Instances) = m_MaxSprites
        /\ m_Statistics.spriteCount = m_MaxSprites

CapacityClampWitness ==
    /\ Ended
    /\ m_MaxSprites = 2
    /\ submitted = m_MaxSprites + MaxExtra
    /\ Len(m_Instances) = 2

\* C5: Begin while Batching, and Draw or End while Idle, raise an error;
\* the batching flag is set by an accepted Begin, cleared by an accepted
\* End, and changed by nothing else.
ProtocolViolationsSignalled ==
    [][ /\ (lastCall' = "Begin" /\ m_IsBatching) => (thrown' # NoError /\ m_IsBatching')
        /\ (lastCall' \in {"Draw", "DrawSprite", "End"} /\ ~m_IsBatching)
               => (thrown' # NoError /\ ~m_IsBatching')
        /\ (lastCall' = "Begin" /\ ~m_IsBatching) => (thrown' = NoError /\ m_IsBatching')
        /\ (lastCall' = "End" /\ m_IsBatching) => (thrown' = NoError /\ ~m_IsBatching')
        /\ (m_IsBatching' # m_IsBatching)
               => (lastCall' \in {"Begin", "End"} /\ thrown' = NoError)
      ]_vars

ProtocolViolationsSignalledWitness ==
    /\ lastCall = "Begin"
    /\ thrown # NoError
    /\ m_IsBatching
    /\ cycles = 1

\* C6: a call that raises its protocol error leaves the batching flag, the
\* request, instance and batch lists, the statistics, the recorded camera
\* and the slot index (and every other field) as they were.
RejectedCallLeavesEngineUntouched ==
    [][ thrown' # NoError => UNCHANGED engineVars ]_vars

RejectedCallLeavesEngineUntouchedWitness ==
    /\ lastCall = "Begin"
    /\ thrown # NoError
    /\ Len(m_SpriteDataList) = 2
    /\ m_CurrentCamera = 1

\* The draw calls among the commands a call recorded.
DrawCalls == SelectSeq(commandBuffer, LAMBDA c : c.op = "vkCmdDrawIndexed")

\* C7: a Render before the first End, or between a Begin and its End,
\* issues no draw call.
RenderOnlyAfterEnd ==
    (lastCall = "Render" /\ (cycles = 0 \/ m_IsBatching \/ legacy_m_IsBatching))
        => DrawCalls = <<>>

\* C8 (P6, idempotent re-render): Render leaves the batch list, instance
\* list, vertex/index data, statistics and slot index alone, and a Render
\* that follows a Render records the same commands.
IdempotentRender ==
    [][ lastCall' = "Render" =>
            /\ UNCHANGED <<m_Batches, m_Instances, m_SpriteDataList, m_Vertices, m_Indices,
                           m_VertexBuffer, m_IndexBuffer, m_FrameData,
                           m_Statistics, m_CurrentFrameIndex>>
            /\ lastCall = "Render" => commandBuffer' = commandBuffer
      ]_vars

IdempotentRenderWitness ==
    /\ lastCall = "Render"
    /\ renders = 2
    /\ Len(DrawCalls) = 2

\* Every request submitted with a null texture sits in a batch keyed on the
\* white texture, and no batch has a null texture.
NullKeyedOnWhite ==
    /\ \A b \in 1..Len(m_Batches) : m_Batches[b].texture # NULL
    /\ \A i \in 1..Len(accepted) :
           accepted[i].arg = NULL =>
               \E k \in 1..Len(m_Instances), b \in 1..Len(m_Batches) :
                   /\ m_Instances[k] = accepted[i].ordinal
                   /\ Covers(b, k)
                   /\ m_Batches[b].texture = WhiteTexture

\* All requests submitted with a null texture share one batch.
NullShareOneBatch ==
    \A i, j \in 1..Len(accepted) :
        (accepted[i].arg = NULL /\ accepted[j].arg = NULL) =>
            \E k, l \in 1..Len(m_Instances), b \in 1..Len(m_Batches) :
                /\ m_Instances[k] = accepted[i].ordinal
                /\ m_Instances[l] = accepted[j].ordinal
                /\ Covers(b, k)
                /\ Covers(b, l)

\* C9 as claimed (P4): after End every null-texture request of the cycle is
\* in one and the same batch, keyed on the white texture.
NullTextureOneBatch ==
    Ended => (NullKeyedOnWhite /\ NullShareOneBatch)

\* C9 as amended: after End every null-texture request is in a batch keyed
\* on the white texture and no batch has a null texture; when sorting was
\* enabled at End all of them share one batch.
NullTextureSubstitution ==
    /\ Ended => NullKeyedOnWhite
    /\ (JustEnded /\ m_EnableTextureSorting) => NullShareOneBatch

NullTextureSubstitutionWitness ==
    /\ JustEnded
    /\ m_EnableTextureSorting
    /\ AcceptedArgs = <<NULL, 1, NULL>>
    /\ Len(m_Batches) = 2

\* The instance records of batch b.
BatchInstances(b) ==
    SubSeq(m_Instances, m_Batches[b].startInstance + 1,
           m_Batches[b].startInstance + m_Batches[b].instanceCount)

\* C10: with sorting enabled, after End each distinct texture among the
\* accepted requests owns exactly one batch, holding exactly the requests
\* with that texture in submission order; textures A, B, A give two batches,
\* A with the first and third request in that order and B with the second.
OneBatchPerTexture ==
    (JustEnded /\ m_EnableTextureSorting) =>
        LET keys == {m_SpriteDataList[i].texture : i \in 1..Len(m_SpriteDataList)}
            requestsOf(t) == {m_SpriteDataList[i].instance :
                                  i \in {x \in 1..Len(m_SpriteDataList) :
                                             m_SpriteDataList[x].texture = t}}
        IN  /\ Len(m_Instances) = Len(accepted)
            /\ \A t \in keys :
                   /\ Cardinality({b \in 1..Len(m_Batches) : m_Batches[b].texture = t}) = 1
                   /\ \A b \in 1..Len(m_Batches) :
                          m_Batches[b].texture = t =>
                              LET inst == BatchInstances(b)
                              IN  /\ Len(inst) = m_Batches[b].instanceCount
                                  /\ Len(inst) = Cardinality(requestsOf(t))
                                  /\ {inst[k] : k \in 1..Len(inst)} = requestsOf(t)
                                  /\ \A k \in 1..(Len(inst) - 1) : inst[k] < inst[k + 1]
            /\ \A b \in 1..Len(m_Batches) : m_Batches[b].texture \in keys
            /\ AcceptedArgs = <<3, 1, 3>> =>
                   /\ m_Statistics.drawCallCount = 2
                   /\ m_Batches = <<[texture |-> 1, startInstance |-> 0, instanceCount |-> 1],
                                    [texture |-> 3, startInstance |-> 1, instanceCount |-> 2]>>
                   /\ m_Instances = <<2, 1, 3>>

OneBatchPerTextureWitness ==
    /\ JustEnded
    /\ m_EnableTextureSorting
    /\ AcceptedArgs = <<3, 1, 3>>
    /\ Len(m_Batches) = 2

\* The requests kept so far in the open cycle are the leading Draw calls of
\* the cycle, in the order they were made.
KeptAreFirst ==
    m_IsBatching =>
        /\ Len(m_SpriteDataList) = IF submitted < m_MaxSprites THEN submitted
                                   ELSE m_MaxSprites
        /\ \A i \in 1..Len(m_SpriteDataList) : m_SpriteDataList[i].instance = i

\* C11: a Draw issued in Batching state when the pending-request count
\* already equals the configured maximum returns without error and changes
\* no state of the engine, so the requests kept for the frame are exactly
\* the first `capacity` requests in submission order.
CapacityOverflowSilent ==
    [][ /\ (/\ lastCall' \in {"Draw", "DrawSprite"}
            /\ m_IsBatching
            /\ Len(m_SpriteDataList) = m_MaxSprites)
           => (thrown' = NoError /\ UNCHANGED engineVars)
        /\ KeptAreFirst' ]_vars

CapacityOverflowSilentWitness ==
    /\ m_IsBatching
    /\ lastCall \in {"Draw", "DrawSprite"}
    /\ thrown = NoError
    /\ m_MaxSprites = 2
    /\ submitted = m_MaxSprites + 2
    /\ Len(m_SpriteDataList) = m_MaxSprites

\* C12: an accepted Begin empties the request, instance and batch lists and
\* zeroes the statistics, so after any sequence of complete cycles the
\* instance list produced by End holds only requests drawn since the most
\* recent Begin, each of them once.
FramesDoNotLeak ==
    [][ /\ (lastCall' = "Begin" /\ thrown' = NoError)
           => /\ m_SpriteDataList' = <<>>
              /\ m_Instances' = <<>>
              /\ m_Batches' = <<>>
              /\ m_Statistics' = ZeroStatistics
        /\ (lastCall' = "End" /\ thrown' = NoError)
           => /\ Len(m_Instances') = Len(accepted')
              /\ \A i \in 1..Len(m_Instances') :
                     \E j \in 1..Len(accepted') : accepted'[j].ordinal = m_Instances'[i]
              /\ SumSeq([b \in 1..Len(m_Batches') |-> m_Batches'[b].instanceCount])
                     = Len(accepted') ]_vars

\* The second cycle has ended with one request while the mapped vertex
\* buffer still holds the second quad the first cycle wrote.
FramesDoNotLeakWitness ==
    /\ JustEnded
    /\ cycles = 2
    /\ Len(m_Instances) = 1
    /\ Len(m_VertexBuffer) = 8
    /\ m_VertexBuffer[8] = 1

\* The counters of the statistics (all of BatchStatistics but cpuTimeMs).
ZeroCounters(statistics) ==
    /\ statistics.spriteCount = 0
    /\ statistics.drawCallCount = 0
    /\ statistics.instancedBatches = 0
    /\ statistics.textureBindCount = 0

\* No Draw call was made in the cycle that has just been closed.
EmptyFrame == Ended /\ submitted = 0

\* The Render calls that follow an empty frame record nothing.
EmptyFrameRenderNoOp ==
    (EmptyFrame /\ lastCall = "Render") => commandBuffer = <<>>

\* C13 as stated: a Begin immediately followed by End produces zero batches
\* and zero statistics (every field of BatchStatistics zero), and the
\* following Render returns without binding the pipeline or issuing any
\* draw call.
EmptyFrameZeroStatistics ==
    /\ (EmptyFrame /\ lastCall \in {"End", "Render"})
           => (m_Batches = <<>> /\ m_Statistics = ZeroStatistics)
    /\ EmptyFrameRenderNoOp

\* C13 amended: a Begin immediately followed by End produces zero batches
\* and zero sprite, draw-call, instanced-batch and texture-bind counts
\* (cpuTimeMs holds the measured duration of End), and the following Render
\* returns without binding the pipeline or issuing any draw call.
EmptyFrameZeroCounters ==
    /\ (EmptyFrame /\ lastCall \in {"End", "Render"})
           => (m_Batches = <<>> /\ ZeroCounters(m_Statistics))
    /\ EmptyFrameRenderNoOp

\* Render after an empty second frame of an engine that drew in its first.
EmptyFrameZeroCountersWitness ==
    /\ EmptyFrame
    /\ lastCall = "Render"
    /\ cycles = 2
    /\ m_MaxSprites > 0
    /\ m_VertexBuffer # <<>>
    /\ m_Statistics.cpuTimeMs > 0
    /\ commandBuffer = <<>>

\* C14: after every End, spriteCount equals the number of accepted (not
\* dropped) requests and the sum of all batch instance counts, and
\* drawCallCount and textureBindCount both equal the number of batches.
StatisticsAccurate ==
    Ended =>
        /\ m_Statistics.spriteCount = Len(accepted)
        /\ m_Statistics.spriteCount
               = SumSeq([b \in 1..Len(m_Batches) |-> m_Batches[b].instanceCount])
        /\ m_Statistics.drawCallCount = Len(m_Batches)
        /\ m_Statistics.textureBindCount = Len(m_Batches)

\* End after requests were dropped at capacity and two batches were built.
StatisticsAccurateWitness ==
    /\ JustEnded
    /\ submitted > Len(accepted)
    /\ m_Statistics.spriteCount = 3
    /\ m_Statistics.drawCallCount = 2

\* The buffers the draw calls of a recorded command buffer read: those bound
\* by vkCmdBindVertexBuffers and vkCmdBindIndexBuffer ahead of the draws.
BuffersRead(commands) ==
    IF \E k \in 1..Len(commands) : commands[k].op = "vkCmdDrawIndexed"
    THEN {commands[k].buffer :
              k \in {x \in 1..Len(commands) :
                         commands[x].op \in {"vkCmdBindVertexBuffers",
                                             "vkCmdBindIndexBuffer"}}}
    ELSE {}

\* The buffers the command buffers submitted and not known to have finished
\* read: the slots whose fence is pending.
ReadInFlight ==
    UNION {BuffersRead(m_CommandBuffers[slot]) :
               slot \in {x \in FrameSlots : m_InFlightFences[x] = "pending"}}

StagingBufferName(frameIndex) ==
    IF frameIndex = 0 THEN "m_FrameData[0].instanceStagingBuffer"
    ELSE "m_FrameData[1].instanceStagingBuffer"

\* The buffers the End that has just returned copied into; frameIndex is
\* m_CurrentFrameIndex as the call found it.
WrittenByEnd(frameIndex) ==
    (IF m_Instances # <<>> THEN {StagingBufferName(frameIndex)} ELSE {})
    \cup (IF m_Vertices # <<>> THEN {"m_VertexBuffer"} ELSE {})
    \cup (IF m_Indices # <<>> THEN {"m_IndexBuffer"} ELSE {})

\* C15: with the renderer keeping 2 frames in flight, the buffers that End
\* writes for frame K+1 are never buffers that the draw calls recorded by
\* Render for frame K read while frame K may still be executing on the GPU.
NoWriteAfterReadHazard ==
    [][ (lastCall' = "End" /\ thrown' = NoError)
           => (WrittenByEnd(m_CurrentFrameIndex))' \cap ReadInFlight = {} ]_vars

\* ======================================================================
\* Camera2D (src/src/Graphics/Camera2D.cpp).  Init is the camera after
\* Camera2D(1, 1): the constructor has run both Update functions.
\* ======================================================================
\* Arguments of the calls: positions along the x axis, rotation steps and
\* viewports of height 1.
Positions == {<<x, 0>> : x \in 0..MaxCoord}
Rotations == 0..MaxCoord
Viewports == {<<width, 1>> : width \in 1..MaxViewport}
\* Arguments of SetZoom and Zoom: a NaN, values below the floor, and values
\* that leave the zoom above it.
ZoomArgs ==
    {NaN} \cup {Float(t) : t \in {0 - MaxZoomTenths, 0, MaxZoomTenths - 1, MaxZoomTenths}}

cameraFields == <<m_Position, m_Rotation, m_Zoom, m_ViewportWidth, m_ViewportHeight>>
notCameraVars == <<engineVars, legacyVars, commandBuffer, lastCall, thrown,
                   harnessVars, rendererVars, inputVars, audioVars, textVars,
                   textureVars>>

SetPosition(position) ==
    /\ cameraCall' = "SetPosition"
    /\ m_Position' = position
    /\ m_ViewDirty' = TRUE
    /\ UNCHANGED <<m_Rotation, m_Zoom, m_ViewportWidth, m_ViewportHeight, m_ViewMatrix,
                   m_ProjectionMatrix, m_ProjectionDirty, nanPassed>>
    /\ zoomArg' = Float(0)
    /\ returned' = IdentityMatrix

SetRotation(rotation) ==
    /\ cameraCall' = "SetRotation"
    /\ m_Rotation' = rotation
    /\ m_ViewDirty' = TRUE
    /\ UNCHANGED <<m_Position, m_Zoom, m_ViewportWidth, m_ViewportHeight, m_ViewMatrix,
                   m_ProjectionMatrix, m_ProjectionDirty, nanPassed>>
    /\ zoomArg' = Float(0)
    /\ returned' = IdentityMatrix

SetZoom(zoom) ==
    /\ cameraCall' = "SetZoom"
    /\ zoomArg' = zoom
    /\ nanPassed' = (nanPassed \/ zoom.nan)
    /\ m_Zoom' = ClampZoom(zoom)
    /\ m_ViewDirty' = TRUE
    /\ UNCHANGED <<m_Position, m_Rotation, m_ViewportWidth, m_ViewportHeight, m_ViewMatrix,
                   m_ProjectionMatrix, m_ProjectionDirty>>
    /\ returned' = IdentityMatrix

SetViewportKeepsProjection(width, height) ==
    /\ cameraCall' = "SetViewport"
    /\ m_ViewportWidth' = width
    /\ m_ViewportHeight' = height
    /\ UNCHANGED <<m_Position, m_Rotation, m_Zoom, m_ViewMatrix, m_ProjectionMatrix,
                   m_ViewDirty, m_ProjectionDirty, nanPassed>>
    /\ zoomArg' = Float(0)
    /\ returned' = IdentityMatrix
SetViewport(width, height) ==
    /\ cameraCall' = "SetViewport"
    /\ m_ViewportWidth' = width
    /\ m_ViewportHeight' = height
    /\ m_ProjectionDirty' = TRUE
    /\ UNCHANGED <<m_Position, m_Rotation, m_Zoom, m_ViewMatrix, m_ProjectionMatrix,
                   m_ViewDirty, nanPassed>>
    /\ zoomArg' = Float(0)
    /\ returned' = IdentityMatrix

\* UpdateViewMatrix / UpdateProjectionMatrix when the flag asks for it: the
\* cached matrix after the getter's check.
ViewMatrixRead ==
    IF m_ViewDirty THEN ViewMatrixOf(m_Position, m_Rotation, m_Zoom) ELSE m_ViewMatrix
ProjectionMatrixRead ==
    IF m_ProjectionDirty THEN ProjectionMatrixOf(m_ViewportWidth, m_ViewportHeight)
    ELSE m_ProjectionMatrix

GetViewMatrix ==
    /\ cameraCall' = "GetViewMatrix"
    /\ m_ViewMatrix' = ViewMatrixRead
    /\ m_ViewDirty' = FALSE
    /\ returned' = ViewMatrixRead
    /\ UNCHANGED <<cameraFields, m_ProjectionMatrix, m_ProjectionDirty, nanPassed>>
    /\ zoomArg' = Float(0)

GetProjectionMatrix ==
    /\ cameraCall' = "GetProjectionMatrix"
    /\ m_ProjectionMatrix' = ProjectionMatrixRead
    /\ m_ProjectionDirty' = FALSE
    /\ returned' = ProjectionMatrixRead
    /\ UNCHANGED <<cameraFields, m_ViewMatrix, m_ViewDirty, nanPassed>>
    /\ zoomArg' = Float(0)

\* GetProjectionMatrix() * GetViewMatrix(): the product is kept as its factors.
GetViewProjectionMatrix ==
    /\ cameraCall' = "GetViewProjectionMatrix"
    /\ m_ViewMatrix' = ViewMatrixRead
    /\ m_ViewDirty' = FALSE
    /\ m_ProjectionMatrix' = ProjectionMatrixRead
    /\ m_ProjectionDirty' = FALSE
    /\ returned' = [projection |-> ProjectionMatrixRead, view |-> ViewMatrixRead]
    /\ UNCHANGED <<cameraFields, nanPassed>>
    /\ zoomArg' = Float(0)

Move(delta) ==
    /\ m_Position[1] + delta[1] <= MaxCoord
    /\ m_Position[2] + delta[2] <= MaxCoord
    /\ cameraCall' = "Move"
    /\ m_Position' = <<m_Position[1] + delta[1], m_Position[2] + delta[2]>>
    /\ m_ViewDirty' = TRUE
    /\ UNCHANGED <<m_Rotation, m_Zoom, m_ViewportWidth, m_ViewportHeight, m_ViewMatrix,
                   m_ProjectionMatrix, m_ProjectionDirty, nanPassed>>
    /\ zoomArg' = Float(0)
    /\ returned' = IdentityMatrix

Rotate(delta) ==
    /\ m_Rotation + delta <= MaxCoord
    /\ cameraCall' = "Rotate"
    /\ m_Rotation' = m_Rotation + delta
    /\ m_ViewDirty' = TRUE
    /\ UNCHANGED <<m_Position, m_Zoom, m_ViewportWidth, m_ViewportHeight, m_ViewMatrix,
                   m_ProjectionMatrix, m_ProjectionDirty, nanPassed>>
    /\ zoomArg' = Float(0)
    /\ returned' = IdentityMatrix

Zoom(delta) ==
    /\ FloatAdd(m_Zoom, delta).tenths <= MaxZoomTenths
    /\ cameraCall' = "Zoom"
    /\ zoomArg' = delta
    /\ nanPassed' = (nanPassed \/ delta.nan)
    /\ m_Zoom' = ClampZoom(FloatAdd(m_Zoom, delta))
    /\ m_ViewDirty' = TRUE
    /\ UNCHANGED <<m_Position, m_Rotation, m_ViewportWidth, m_ViewportHeight, m_ViewMatrix,
                   m_ProjectionMatrix, m_ProjectionDirty>>
    /\ returned' = IdentityMatrix

NextCamera ==
    \/ \E position \in Positions : SetPosition(position) /\ UNCHANGED notCameraVars
    \/ \E rotation \in Rotations : SetRotation(rotation) /\ UNCHANGED notCameraVars
    \/ \E zoom \in ZoomArgs : SetZoom(zoom) /\ UNCHANGED notCameraVars
    \/ \E viewport \in Viewports :
           SetViewport(viewport[1], viewport[2]) /\ UNCHANGED notCameraVars
    \/ GetViewMatrix /\ UNCHANGED notCameraVars
    \/ GetProjectionMatrix /\ UNCHANGED notCameraVars
    \/ GetViewProjectionMatrix /\ UNCHANGED notCameraVars
    \/ \E delta \in Positions : Move(delta) /\ UNCHANGED notCameraVars
    \/ \E delta \in Rotations : Rotate(delta) /\ UNCHANGED notCameraVars
    \/ \E delta \in ZoomArgs : Zoom(delta) /\ UNCHANGED notCameraVars

SpecCamera == Init /\ [][NextCamera]_vars

\* a >= b on floats: false when either is a NaN.
FloatGeq(a, b) == ~a.nan /\ ~b.nan /\ a.tenths >= b.tenths

\* What SetZoom, Zoom and GetViewMatrix do with a value below the floor.
ZoomClamped ==
    /\ (cameraCall' = "SetZoom" /\ FloatLess(zoomArg', MinZoom)) => m_Zoom' = MinZoom
    /\ (cameraCall' = "Zoom" /\ FloatLess(FloatAdd(m_Zoom, zoomArg'), MinZoom))
           => m_Zoom' = MinZoom
    /\ cameraCall' = "GetViewMatrix" => returned'.scale = m_Zoom'

\* C16 as stated: after any sequence of SetZoom and Zoom calls with any
\* arguments the camera zoom is at least 0.1; a SetZoom(z) with z < 0.1, or
\* a Zoom(delta) that would take the zoom below 0.1, leaves it at exactly
\* 0.1, and the view matrix read afterwards is built from the clamped value.
ZoomFloor ==
    [][ FloatGeq(m_Zoom', MinZoom) /\ ZoomClamped ]_vars

\* C16 amended: the same for calls whose arguments are finite numbers; a NaN
\* passed to SetZoom or Zoom is stored as the zoom.
ZoomFloorFinite ==
    [][ (~nanPassed' => FloatGeq(m_Zoom', MinZoom)) /\ ZoomClamped ]_vars

\* The view matrix read after a call that was clamped (no argument of the
\* model sets the zoom to 0.1 without the clamp).
ZoomFloorFiniteWitness ==
    /\ cameraCall = "GetViewMatrix"
    /\ ~nanPassed
    /\ m_Zoom = MinZoom
    /\ returned.scale = MinZoom

\* C17: after any interleaving of the mutators and matrix reads,
\* GetViewMatrix returns the matrix computed from the current position,
\* rotation and zoom and GetProjectionMatrix the one computed from the
\* current viewport; whenever a dirty flag is false the cached matrix
\* equals the value recomputed from the current fields.
CameraCacheCoherent ==
    LET view == ViewMatrixOf(m_Position, m_Rotation, m_Zoom)
        projection == ProjectionMatrixOf(m_ViewportWidth, m_ViewportHeight)
    IN  /\ ~m_ViewDirty => m_ViewMatrix = view
        /\ ~m_ProjectionDirty => m_ProjectionMatrix = projection
        /\ cameraCall = "GetViewMatrix" => returned = view
        /\ cameraCall = "GetProjectionMatrix" => returned = projection
        /\ cameraCall = "GetViewProjectionMatrix"
               => returned = [projection |-> projection, view |-> view]

\* A projection read that had to recompute after SetViewport, while the view
\* cache is stale after moves of every kind.
CameraCacheCoherentWitness ==
    /\ cameraCall = "GetProjectionMatrix"
    /\ m_ViewportWidth = MaxViewport
    /\ returned.right = MaxViewport
    /\ m_ViewDirty
    /\ m_Position # <<0, 0>>
    /\ m_Rotation # 0
    /\ m_Zoom # Float(10)
    /\ m_ViewMatrix = ViewMatrixOf(<<0, 0>>, 0, Float(10))

\* ======================================================================
\* InputManager (src/unnamed/part_003) inside Engine::Run
\* (src/src/Core/Engine.cpp 106-118).
\* ======================================================================
Keys == 1..NumKeys
KeyActions == {"none", "GLFW_PRESS", "GLFW_RELEASE", "GLFW_REPEAT"}
ScrollEvents == {<<>>} \cup {<<yoffset>> : yoffset \in {0 - MaxScroll, MaxScroll}}

\* InputManager::KeyCallbackGLFW for one key: the entry of m_CurrentKeys
\* after the callback; "none" is a poll without an event for the key.
KeyCallbackGLFW(current, action) ==
    IF action = "none" THEN current
    ELSE action = "GLFW_PRESS" \/ action = "GLFW_REPEAT"

\* InputManager::ScrollCallbackGLFW for the scroll events of one poll.
ScrollCallbackGLFW(scrollDelta, events) ==
    IF events = <<>> THEN scrollDelta ELSE events[Len(events)]

IsKeyPressed(key) == m_CurrentKeys[key] /\ ~m_PreviousKeys[key]
IsKeyReleased(key) == ~m_CurrentKeys[key] /\ m_PreviousKeys[key]
GetScrollDelta == m_ScrollDelta

\* m_Window->PollEvents(): glfwPollEvents runs the callbacks of the queued
\* events, actions[k] for key k and the scroll events.
PollEvents(actions, events) ==
    /\ inputPc = "PollEvents"
    /\ m_CurrentKeys' = [k \in Keys |-> KeyCallbackGLFW(m_CurrentKeys[k], actions[k])]
    /\ m_ScrollDelta' = ScrollCallbackGLFW(m_ScrollDelta, events)
    /\ wentDown' = {k \in Keys : ~m_CurrentKeys[k] /\ m_CurrentKeys'[k]}
    /\ wentUp' = {k \in Keys : m_CurrentKeys[k] /\ ~m_CurrentKeys'[k]}
    /\ wheel' = events
    /\ inputPc' = "Update"
    /\ UNCHANGED <<m_PreviousKeys, seenPressed, seenReleased, seenScroll>>

\* m_Input->Update()
InputManagerUpdate ==
    /\ inputPc = "Update"
    /\ m_PreviousKeys' = m_CurrentKeys
    /\ m_ScrollDelta' = 0
    /\ inputPc' = "onUpdate"
    /\ UNCHANGED <<m_CurrentKeys, wentDown, wentUp, wheel,
                   seenPressed, seenReleased, seenScroll>>

\* onUpdate(m_DeltaTime): the callback queries the input manager.
OnUpdate ==
    /\ inputPc = "onUpdate"
    /\ seenPressed' = [k \in Keys |-> IsKeyPressed(k)]
    /\ seenReleased' = [k \in Keys |-> IsKeyReleased(k)]
    /\ seenScroll' = GetScrollDelta
    /\ inputPc' = "PollEvents"
    /\ UNCHANGED <<m_CurrentKeys, m_PreviousKeys, m_ScrollDelta, wentDown, wentUp, wheel>>

notInputVars == <<engineVars, legacyVars, commandBuffer, lastCall, thrown,
                  harnessVars, rendererVars, cameraVars, audioVars, textVars,
                   textureVars>>

NextInput ==
    \/ \E actions \in [Keys -> KeyActions], events \in ScrollEvents :
           PollEvents(actions, events) /\ UNCHANGED notInputVars
    \/ InputManagerUpdate /\ UNCHANGED notInputVars
    \/ OnUpdate /\ UNCHANGED notInputVars

SpecInput == Init /\ [][NextInput]_vars

\* C18: in Engine::Run, a key that goes from up to down during a frame's
\* event poll is reported by IsKeyPressed as true inside that frame's update
\* callback and false in the next frame's (symmetrically for IsKeyReleased),
\* and a wheel event received in the poll is returned by GetScrollDelta in
\* that frame's update callback.
InputEdgesReachCallback ==
    [][ (inputPc = "onUpdate" /\ inputPc' = "PollEvents")
           => /\ \A k \in Keys : seenPressed'[k] <=> k \in wentDown
              /\ \A k \in Keys : seenReleased'[k] <=> k \in wentUp
              /\ wheel # <<>> => seenScroll' = wheel[Len(wheel)] ]_vars

\* ======================================================================
\* AudioManager (src/src/Audio/AudioManager.cpp).  The main thread calls
\* Play, PlayBGM, Stop, StopBGM, StopAll, Pause, Resume and Update; each of
\* them but StopBGM holds m_Mutex for its whole body, so each is one step.
\* The audio device thread runs ProcessAudio from DataCallback; it is two
\* steps, entry and exit, so that main-thread calls can fall in between.
\* Volumes are counted in sixths of 1.0f, pitches in tenths of 1.0f and
\* times in seconds; every sound played has SoundFrames frames and the
\* callback mixes one frame.

\* 1.0f, the full fade volume, in sixths.
One == 6

\* 1.0f / time for a whole number of seconds.
FadeSpeed(time) == One \div time

\* 1.0f / 0.5f, the speed of the fade-out PlayBGM asks of StopBGM(0.5f).
BgmFadeOutSpeed == 2 * One

\* float pitch = 1.0f, in tenths, and the limits of SetPitch's clamp.
PitchOne == 10
MinPitch == 1
MaxPitch == 40

\* The pitch arguments given to SetPitch, in tenths: below the clamp, a
\* fraction below one, one, a fraction above two and above the clamp.
Pitches == {0, 5, 10, 25, 50}

\* std::clamp(pitch, 0.1f, 4.0f).
ClampPitch(pitch) ==
    IF pitch < MinPitch THEN MinPitch ELSE IF pitch > MaxPitch THEN MaxPitch ELSE pitch

\* static_cast<size_t>(playing.pitch): the fraction is dropped.
FrameStep(pitch) == pitch \div PitchOne

InstanceIds == 1..MaxInstances
FadeTimes == 0..MaxFadeTime
DeltaTimes == 1..MaxDeltaTime

\* PlayingSound with its default member initialisers; sound is TRUE for a
\* non-null pointer.
PlayingSound(loop, isBGM) ==
    [sound |-> TRUE, pitch |-> PitchOne, loop |-> loop, paused |-> FALSE,
     isBGM |-> isBGM, fadeVolume |-> One, fadeTarget |-> One, fadeSpeed |-> 0,
     fadeOutStop |-> FALSE, currentFrame |-> 0]

IsActive(playing) == playing.sound

\* The fade-in both Play and PlayBGM set up when the time is positive.
WithFadeIn(playing, fadeInTime) ==
    IF fadeInTime > 0
    THEN [playing EXCEPT !.fadeVolume = 0, !.fadeTarget = One,
                         !.fadeSpeed = FadeSpeed(fadeInTime)]
    ELSE playing

\* playingSounds[id] = playing.
Insert(table, id, playing) ==
    [i \in DOMAIN table \cup {id} |-> IF i = id THEN playing ELSE table[i]]

\* playingSounds.erase for each id of ids.
Erase(table, ids) == [i \in DOMAIN table \ ids |-> table[i]]

\* The fields a fade-out request writes.
FadeOut(playing, speed) ==
    [playing EXCEPT !.fadeTarget = 0, !.fadeSpeed = speed, !.fadeOutStop = TRUE]

\* The body of Stop on the table: a fade-out request when fading, an erase
\* otherwise, nothing for an instance that is not in the table.
StopIn(table, id, fading, speed) ==
    IF id \notin DOMAIN table THEN table
    ELSE IF fading THEN [table EXCEPT ![id] = FadeOut(@, speed)]
    ELSE Erase(table, {id})

\* A main-thread call touches the table under m_Mutex; it races when the
\* audio thread is inside ProcessAudio, which holds no mutex.
MainThreadCall(op, id, time) ==
    /\ ~crashed
    /\ m_Mutex = "free"
    /\ raced' = (raced \/ audioPc = "mixing")
    /\ audioCall' = [op |-> op, id |-> id, time |-> time]
    /\ UNCHANGED <<m_Mutex, audioPc, crashed>>

Play(loop, fadeInTime) ==
    /\ nextInstanceId <= MaxInstances
    /\ MainThreadCall("Play", nextInstanceId, fadeInTime)
    /\ nextInstanceId' = nextInstanceId + 1
    /\ playingSounds' = Insert(playingSounds, nextInstanceId,
                               WithFadeIn(PlayingSound(loop, FALSE), fadeInTime))
    /\ UNCHANGED m_CurrentBGM

PlayBGM(fadeInTime) ==
    /\ nextInstanceId <= MaxInstances
    /\ MainThreadCall("PlayBGM", nextInstanceId, fadeInTime)
    /\ nextInstanceId' = nextInstanceId + 1
    /\ playingSounds' =
           Insert(IF m_CurrentBGM # 0
                  THEN StopIn(playingSounds, m_CurrentBGM, TRUE, BgmFadeOutSpeed)
                  ELSE playingSounds,
                  nextInstanceId,
                  WithFadeIn(PlayingSound(TRUE, TRUE), fadeInTime))
    /\ m_CurrentBGM' = nextInstanceId

Stop(instance, fadeOutTime) ==
    /\ instance < nextInstanceId
    /\ MainThreadCall("Stop", instance, fadeOutTime)
    /\ playingSounds' = StopIn(playingSounds, instance, fadeOutTime > 0,
                               IF fadeOutTime > 0 THEN FadeSpeed(fadeOutTime) ELSE 0)
    /\ UNCHANGED <<nextInstanceId, m_CurrentBGM>>

StopBGM(fadeOutTime) ==
    /\ m_CurrentBGM # 0
    /\ MainThreadCall("StopBGM", m_CurrentBGM, fadeOutTime)
    /\ playingSounds' = StopIn(playingSounds, m_CurrentBGM, fadeOutTime > 0,
                               IF fadeOutTime > 0 THEN FadeSpeed(fadeOutTime) ELSE 0)
    /\ m_CurrentBGM' = 0
    /\ UNCHANGED nextInstanceId

StopAll(fadeOutTime) ==
    /\ MainThreadCall("StopAll", 0, fadeOutTime)
    /\ playingSounds' =
           IF fadeOutTime > 0
           THEN [id \in DOMAIN playingSounds |->
                     FadeOut(playingSounds[id], FadeSpeed(fadeOutTime))]
           ELSE Erase(playingSounds, DOMAIN playingSounds)
    /\ m_CurrentBGM' = 0
    /\ UNCHANGED nextInstanceId

Pause(instance) ==
    /\ instance < nextInstanceId
    /\ MainThreadCall("Pause", instance, 0)
    /\ playingSounds' = IF instance \in DOMAIN playingSounds
                        THEN [playingSounds EXCEPT ![instance].paused = TRUE]
                        ELSE playingSounds
    /\ UNCHANGED <<nextInstanceId, m_CurrentBGM>>

Resume(instance) ==
    /\ instance < nextInstanceId
    /\ MainThreadCall("Resume", instance, 0)
    /\ playingSounds' = IF instance \in DOMAIN playingSounds
                        THEN [playingSounds EXCEPT ![instance].paused = FALSE]
                        ELSE playingSounds
    /\ UNCHANGED <<nextInstanceId, m_CurrentBGM>>

\* The fade step of Update on one active entry.
Faded(playing, deltaTime) ==
    IF playing.fadeSpeed > 0
    THEN IF playing.fadeVolume < playing.fadeTarget
         THEN LET volume == playing.fadeVolume + playing.fadeSpeed * deltaTime
              IN  IF volume >= playing.fadeTarget
                  THEN [playing EXCEPT !.fadeVolume = playing.fadeTarget,
                                       !.fadeSpeed = 0]
                  ELSE [playing EXCEPT !.fadeVolume = volume]
         ELSE IF playing.fadeVolume > playing.fadeTarget
         THEN LET volume == playing.fadeVolume - playing.fadeSpeed * deltaTime
              IN  IF volume <= playing.fadeTarget
                  THEN [playing EXCEPT !.fadeVolume = playing.fadeTarget,
                                       !.fadeSpeed = 0]
                  ELSE [playing EXCEPT !.fadeVolume = volume]
         ELSE playing
    ELSE playing

\* The ids Update collects in toRemove: the inactive entries and the ones
\* whose fade-out has just reached zero.
ToRemove(table, deltaTime) ==
    {id \in DOMAIN table :
        \/ ~IsActive(table[id])
        \/ /\ table[id].fadeSpeed > 0
           /\ table[id].fadeVolume > table[id].fadeTarget
           /\ table[id].fadeVolume - table[id].fadeSpeed * deltaTime
                  <= table[id].fadeTarget
           /\ table[id].fadeOutStop
           /\ table[id].fadeTarget = 0}

AudioManagerUpdate(deltaTime) ==
    /\ MainThreadCall("Update", 0, deltaTime)
    /\ playingSounds' =
           Erase([id \in DOMAIN playingSounds |->
                      IF IsActive(playingSounds[id])
                      THEN Faded(playingSounds[id], deltaTime)
                      ELSE playingSounds[id]],
                 ToRemove(playingSounds, deltaTime))
    /\ UNCHANGED <<nextInstanceId, m_CurrentBGM>>

\* What ProcessAudio does to one entry while mixing one frame.
Mixed(playing) ==
    IF ~IsActive(playing) \/ playing.paused THEN playing
    ELSE IF playing.currentFrame >= SoundFrames
    THEN IF playing.loop
         THEN [playing EXCEPT !.currentFrame = FrameStep(playing.pitch)]
         ELSE [playing EXCEPT !.sound = FALSE]
    ELSE [playing EXCEPT !.currentFrame = @ + FrameStep(playing.pitch)]

\* DataCallback enters ProcessAudio; no mutex is taken.
ProcessAudioBegin ==
    /\ ~crashed
    /\ audioPc = "idle"
    /\ audioPc' = "mixing"
    /\ raced' = FALSE
    /\ audioCall' = [op |-> "ProcessAudio", id |-> 0, time |-> 0]
    /\ UNCHANGED <<playingSounds, nextInstanceId, m_CurrentBGM, m_Mutex, crashed>>

\* ProcessAudio returns.  After a race with the main thread the behaviour
\* is undefined: the loop over the table either completes on the entries
\* that are there, or the process dies.
ProcessAudioEnd(dies) ==
    /\ ~crashed
    /\ audioPc = "mixing"
    /\ dies => raced
    /\ audioCall' = [op |-> "ProcessAudioEnd", id |-> 0, time |-> 0]
    /\ IF dies
       THEN /\ crashed' = TRUE
            /\ UNCHANGED <<playingSounds, audioPc, raced>>
       ELSE /\ playingSounds' = [id \in DOMAIN playingSounds |->
                                     Mixed(playingSounds[id])]
            /\ audioPc' = "idle"
            /\ raced' = FALSE
            /\ UNCHANGED crashed
    /\ UNCHANGED <<nextInstanceId, m_CurrentBGM, m_Mutex>>

notAudioVars == <<engineVars, legacyVars, commandBuffer, lastCall, thrown,
                  harnessVars, rendererVars, cameraVars, inputVars, textVars,
                   textureVars>>

NextAudio ==
    \/ \E loop \in BOOLEAN, fadeInTime \in FadeTimes :
           Play(loop, fadeInTime) /\ UNCHANGED notAudioVars
    \/ \E fadeInTime \in FadeTimes : PlayBGM(fadeInTime) /\ UNCHANGED notAudioVars
    \/ \E instance \in InstanceIds, fadeOutTime \in FadeTimes :
           Stop(instance, fadeOutTime) /\ UNCHANGED notAudioVars
    \/ \E fadeOutTime \in FadeTimes : StopBGM(fadeOutTime) /\ UNCHANGED notAudioVars
    \/ \E fadeOutTime \in FadeTimes : StopAll(fadeOutTime) /\ UNCHANGED notAudioVars
    \/ \E instance \in InstanceIds : Pause(instance) /\ UNCHANGED notAudioVars
    \/ \E instance \in InstanceIds : Resume(instance) /\ UNCHANGED notAudioVars
    \/ \E deltaTime \in DeltaTimes :
           AudioManagerUpdate(deltaTime) /\ UNCHANGED notAudioVars
    \/ ProcessAudioBegin /\ UNCHANGED notAudioVars
    \/ \E dies \in BOOLEAN : ProcessAudioEnd(dies) /\ UNCHANGED notAudioVars

SpecAudio == Init /\ [][NextAudio]_vars

\* AudioManager::SetPitch (364-373).
SetPitch(instance, pitch) ==
    /\ MainThreadCall("SetPitch", instance, 0)
    /\ playingSounds' =
           IF instance \in DOMAIN playingSounds
           THEN [playingSounds EXCEPT ![instance].pitch = ClampPitch(pitch)]
           ELSE playingSounds
    /\ UNCHANGED <<nextInstanceId, m_CurrentBGM>>

\* Sounds played without a fade-in, re-pitched, mixed and collected.
NextPitch ==
    \/ \E loop \in BOOLEAN : Play(loop, 0) /\ UNCHANGED notAudioVars
    \/ \E instance \in InstanceIds, pitch \in Pitches :
           SetPitch(instance, pitch) /\ UNCHANGED notAudioVars
    \/ \E deltaTime \in DeltaTimes :
           AudioManagerUpdate(deltaTime) /\ UNCHANGED notAudioVars
    \/ ProcessAudioBegin /\ UNCHANGED notAudioVars
    \/ \E dies \in BOOLEAN : ProcessAudioEnd(dies) /\ UNCHANGED notAudioVars

SpecPitch == Init /\ [][NextPitch]_vars

\* C19: AudioManager is thread-safe: in no interleaving of the audio device
\* callback ProcessAudio with the main-thread calls does the main thread
\* touch the playing-sound table or an entry's fields while the audio thread
\* is inside ProcessAudio without the mutex.
AudioTableExclusive == ~raced

\* C20: a fade-out stop completes.  An Update with deltaTime > 0 never
\* leaves an instance whose stop was requested exactly as it found it (an
\* entry Update leaves unchanged is left unchanged by every later Update
\* too, so it is never removed), and Stop with fadeOutTime = 0 removes the
\* instance in the same call.
FadeOutStopCompletes ==
    [][ \A id \in DOMAIN playingSounds :
          /\ (audioCall'.op = "Update" /\ playingSounds[id].fadeOutStop
                 /\ id \in DOMAIN playingSounds')
                => playingSounds'[id] # playingSounds[id]
          /\ (audioCall'.op \in {"Stop", "StopBGM"} /\ audioCall'.id = id
                 /\ audioCall'.time = 0)
                => id \notin DOMAIN playingSounds' ]_vars

\* ======================================================================
\* C21: each batch is drawn over exactly its own sprites.  After a Render
\* that recorded commands there is one vkCmdDrawIndexed per batch; the draw
\* of batch b starts at index 6 * b.startInstance and covers
\* 6 * b.instanceCount indices; every index it covers was uploaded by the
\* last End and names one of the vertices 4*i .. 4*i+3 of an instance i of
\* the batch, and that vertex was generated from instance record i.
BatchDrawnOverOwnSprites ==
    (lastCall = "Render" /\ commandBuffer # <<>>) =>
        /\ Len(DrawCalls) = Len(m_Batches)
        /\ \A k \in 1..Len(m_Batches) :
              LET b == m_Batches[k]
                  draw == DrawCalls[k]
              IN  /\ draw.firstIndex = 6 * b.startInstance
                  /\ draw.indexCount = 6 * b.instanceCount
                  /\ \A j \in (draw.firstIndex + 1)..(draw.firstIndex + draw.indexCount) :
                        /\ j <= Len(m_Indices)
                        /\ j <= Len(m_IndexBuffer) /\ m_IndexBuffer[j] = cycles
                        /\ \E i \in b.startInstance..(b.startInstance + b.instanceCount - 1) :
                              /\ m_Indices[j] \in (4 * i)..(4 * i + 3)
                              /\ m_Indices[j] + 1 <= Len(m_Vertices)
                              /\ m_Vertices[m_Indices[j] + 1].instance = m_Instances[i + 1]
                              /\ m_VertexBuffer[m_Indices[j] + 1] = cycles

\* A Render over two batches, the second of them of two sprites.
BatchDrawnOverOwnSpritesWitness ==
    /\ lastCall = "Render"
    /\ commandBuffer # <<>>
    /\ Len(m_Batches) = 2
    /\ m_Batches[2].instanceCount = 2

\* C22: uploads never exceed the buffers allocated at construction.  In
\* both implementations every accepted End copies at most 4 * maxSprites
\* vertices, 6 * maxSprites indices and maxSprites instance records into
\* the mapped buffers (End copies the whole of m_Vertices, m_Indices and
\* m_Instances).
UploadsWithinBuffers ==
    JustEnded =>
        /\ Len(m_Vertices) <= 4 * m_MaxSprites
        /\ Len(m_Indices) <= 6 * m_MaxSprites
        /\ Len(m_Instances) <= m_MaxSprites
        /\ Len(legacy_m_Vertices) <= 4 * m_MaxSprites
        /\ Len(legacy_m_Indices) <= 6 * m_MaxSprites

\* C23: slot rotation.  The frame-buffer slot index stays in
\* 0 .. FRAME_BUFFER_COUNT - 1; every accepted End, also one without
\* requests, advances it by one modulo FRAME_BUFFER_COUNT; every other call,
\* accepted or rejected, leaves it unchanged; and an End with at least one
\* instance writes the staging region of the slot that was current before
\* the advance and leaves the region of every other slot as it was.
SlotRotation ==
    [][ /\ m_CurrentFrameIndex' \in 0..(FRAME_BUFFER_COUNT - 1)
        /\ IF lastCall' = "End" /\ thrown' = NoError
           THEN /\ m_CurrentFrameIndex' = (m_CurrentFrameIndex + 1) % FRAME_BUFFER_COUNT
                /\ \A slot \in (0..(FRAME_BUFFER_COUNT - 1)) \ {m_CurrentFrameIndex} :
                       m_FrameData'[slot] = m_FrameData[slot]
                /\ m_Instances' # <<>> =>
                      LET staging == m_FrameData'[m_CurrentFrameIndex].instanceStagingBuffer
                      IN  /\ Len(staging) >= Len(m_Instances')
                          /\ \A i \in 1..Len(m_Instances') : staging[i] = cycles'
                          /\ m_FrameData'[m_CurrentFrameIndex].needsUpload
                /\ m_Instances' = <<>> => UNCHANGED m_FrameData
           ELSE UNCHANGED <<m_CurrentFrameIndex, m_FrameData>> ]_vars

\* The second End has just written slot 1 and wrapped the index back to 0,
\* while slot 0 still holds what the first End wrote.
SlotRotationWitness ==
    /\ JustEnded
    /\ cycles = 2
    /\ m_CurrentFrameIndex = 0
    /\ m_Instances # <<>>
    /\ m_FrameData[1].instanceStagingBuffer[1] = 2
    /\ m_FrameData[0].instanceStagingBuffer # <<>>
    /\ m_FrameData[0].instanceStagingBuffer[1] = 1

\* C24: slot pairing under the engine loop.  With one Begin/Draw*/End/Render
\* cycle per rendered frame, the slot End populates (the value of
\* m_CurrentFrameIndex before End advances it) is the renderer's current
\* in-flight frame, whose command buffer Render is then handed, in every
\* frame, also after iterations that were skipped.
SlotPairing ==
    /\ framePc \in {"Begin", "Draw"} => m_CurrentFrameIndex = m_CurrentFrame
    /\ framePc \in {"Render", "EndFrame"} =>
          (m_CurrentFrameIndex + FRAME_BUFFER_COUNT - 1) % FRAME_BUFFER_COUNT
              = m_CurrentFrame

\* The second rendered frame, after a skipped iteration: End has populated
\* slot 1 and Render is about to get the command buffer of frame 1.
SlotPairingWitness ==
    /\ framePc = "Render"
    /\ everSkipped
    /\ m_CurrentFrame = 1
    /\ m_Instances # <<>>
    /\ m_FrameData[1].needsUpload

\* C25: skipped frames leave no trace.  An iteration of Engine::Run in which
\* the window is minimized or BeginFrame returns false invokes neither the
\* render callback nor EndFrame and leaves the renderer's current-frame
\* index where it was; every other iteration runs BeginFrame, the render
\* callback and EndFrame once each, in that order.
SkippedFramesLeaveNoTrace ==
    /\ outcome = "skipped" =>
          /\ \A i \in 1..Len(ran) : ran[i] \notin {"onRender", "EndFrame"}
          /\ m_CurrentFrame = frameAtStart
    /\ (outcome = "passed" /\ framePc = "IsMinimized") =>
          ran = <<"BeginFrame", "onRender", "EndFrame">>
    /\ \E n \in 0..3 : ran = SubSeq(<<"BeginFrame", "onRender", "EndFrame">>, 1, n)

\* An iteration skipped because BeginFrame returned false, after a frame
\* that was rendered.
SkippedFramesLeaveNoTraceWitness ==
    /\ framePc = "IsMinimized"
    /\ outcome = "skipped"
    /\ ran = <<"BeginFrame">>
    /\ cycles = 1
    /\ m_CurrentFrame = 1

\* ======================================================================
\* TextRenderer (src/src/Graphics/Sprite.cpp 171-394) drawing through the
\* instanced-capable SpriteBatch.  A text is a sequence of bytes; the font
\* is one Font object whose face has every character Font::LoadGlyphs asks
\* for, with an empty bitmap for the space and a bitmap of one pixel for
\* every other character.

\* The bytes texts are made of: ' ', 'A', a continuation byte and the lead
\* byte of a three-byte sequence.
TextBytes == {32, 65, 129, 227}
Texts == UNION {[1..n -> TextBytes] : n \in 0..MaxTextLen}

\* The ASCII texts drawn with a shadow among other sprites.
ShadowTexts == UNION {[1..n -> {32, 65}] : n \in 0..MaxShadowLen}

\* The Font object and the texture Font::CreateAtlas made for it.
TheFont == 1
AtlasTexture == 3
Fonts == {NULL, TheFont}

\* Utf8ToCodepoints from byte i (1-based) on.
RECURSIVE Utf8Loop(_, _, _)
Utf8Loop(utf8String, i, codepoints) ==
    IF i > Len(utf8String) THEN codepoints
    ELSE LET c == utf8String[i]
             n == Len(utf8String)
             Push(codepoint) == IF codepoint > 0 THEN Append(codepoints, codepoint)
                                ELSE codepoints
         IN  IF c < 128
             THEN Utf8Loop(utf8String, i + 1, Push(c))
             ELSE IF c >= 192 /\ c < 224
             THEN IF i + 1 <= n
                  THEN Utf8Loop(utf8String, i + 2,
                                Push((c % 32) * 64 + (utf8String[i + 1] % 64)))
                  ELSE Utf8Loop(utf8String, i + 1, codepoints)
             ELSE IF c >= 224 /\ c < 240
             THEN IF i + 2 <= n
                  THEN Utf8Loop(utf8String, i + 3,
                                Push((c % 16) * 4096 + (utf8String[i + 1] % 64) * 64
                                     + (utf8String[i + 2] % 64)))
                  ELSE Utf8Loop(utf8String, i + 1, codepoints)
             ELSE IF c >= 240 /\ c < 248
             THEN IF i + 3 <= n
                  THEN Utf8Loop(utf8String, i + 4,
                                Push((c % 8) * 262144 + (utf8String[i + 1] % 64) * 4096
                                     + (utf8String[i + 2] % 64) * 64
                                     + (utf8String[i + 3] % 64)))
                  ELSE Utf8Loop(utf8String, i + 1, codepoints)
             ELSE Utf8Loop(utf8String, i + 1, codepoints)

Utf8ToCodepoints(utf8String) == Utf8Loop(utf8String, 1, <<>>)

\* The characters Font::LoadGlyphs and CreateAtlas load: ASCII 32-126,
\* Hiragana, Katakana and the kanji 4E00-4FFF.
LoadedCharacters ==
    (32..126) \cup (12352..12447) \cup (12448..12543) \cup (19968..20479)

\* font->GetGlyph(codepoint) != nullptr
HasGlyph(font, codepoint) == codepoint \in LoadedCharacters

\* GlyphInfo::size of a glyph of the font.
GlyphSize(font, codepoint) == IF codepoint = 32 THEN <<0, 0>> ELSE <<1, 1>>

\* glyph->size.x > 0 && glyph->size.y > 0
GlyphHasBitmapAlways(size) == TRUE
GlyphHasBitmap(size) == size[1] > 0 /\ size[2] > 0

\* The glyph loop of DrawText: the Draw calls it makes, in order.
RECURSIVE DrawTextLoop(_, _, _)
DrawTextLoop(font, codepoints, draws) ==
    IF codepoints = <<>> THEN draws
    ELSE LET codepoint == Head(codepoints)
         IN  IF ~HasGlyph(font, codepoint)
             THEN DrawTextLoop(font, Tail(codepoints), draws)
             ELSE IF GlyphHasBitmap(GlyphSize(font, codepoint))
             THEN DrawTextLoop(font, Tail(codepoints),
                               Append(draws, [texture |-> AtlasTexture,
                                              codepoint |-> codepoint]))
             ELSE DrawTextLoop(font, Tail(codepoints), draws)

\* The Draw calls of DrawText(batch, font, text, ...).
DrawTextDraws(font, text) ==
    IF font = NULL \/ text = <<>> THEN <<>>
    ELSE DrawTextLoop(font, Utf8ToCodepoints(text), <<>>)

\* The shadow pass of DrawTextWithShadow followed by the text pass.
ForegroundFirst(shadow, foreground) == foreground \o shadow
ShadowFirst(shadow, foreground) == shadow \o foreground

\* One SpriteBatch::Draw of a batching engine on the request list, the
\* count of submitted requests and the records of the Draw calls.
DrawOne(batch, draw, call) ==
    LET ordinal == batch.submitted + 1
        kept == ~AtCapacity(batch.list, m_MaxSprites)
    IN  [list |-> IF kept
                  THEN Append(batch.list, SpriteData(SubstituteWhite(draw.texture), ordinal))
                  ELSE batch.list,
         submitted |-> ordinal,
         accepted |-> IF kept
                      THEN Append(batch.accepted, [arg |-> draw.texture, ordinal |-> ordinal])
                      ELSE batch.accepted,
         issued |-> Append(batch.issued,
                           [call |-> call, layer |-> draw.layer,
                            codepoint |-> draw.codepoint, texture |-> draw.texture,
                            ordinal |-> ordinal])]

RECURSIVE DrawEach(_, _, _)
DrawEach(batch, draws, call) ==
    IF draws = <<>> THEN batch
    ELSE DrawEach(DrawOne(batch, Head(draws), call), Tail(draws), call)

\* A TextRenderer function that makes the Draw calls draws.  The first Draw
\* of an engine that is not batching throws, and nothing has changed.
TextCall(name, font, text, draws) ==
    /\ textCalls < MaxTextCalls
    /\ submitted < m_MaxSprites + MaxExtra
    /\ lastCall' = name
    /\ commandBuffer' = <<>>
    /\ textArgs' = [font |-> font, text |-> text]
    /\ textCalls' = textCalls + 1
    /\ IF draws = <<>>
       THEN /\ thrown' = NoError
            /\ UNCHANGED <<engineVars, ghostVars, issued>>
       ELSE IF ~m_IsBatching
       THEN /\ DrawRejected
            /\ UNCHANGED issued
       ELSE LET batch == DrawEach([list |-> m_SpriteDataList, submitted |-> submitted,
                                   accepted |-> accepted, issued |-> issued],
                                  draws, textCalls + 1)
            IN  /\ thrown' = NoError
                /\ m_SpriteDataList' = batch.list
                /\ submitted' = batch.submitted
                /\ accepted' = batch.accepted
                /\ issued' = batch.issued
                /\ UNCHANGED <<m_MaxSprites, m_IsBatching, m_EnableTextureSorting,
                               m_CurrentCamera, m_Instances, m_Batches, m_Vertices,
                               m_Indices, m_Statistics, m_CurrentFrameIndex, m_FrameData,
                               m_VertexBuffer, m_IndexBuffer, m_DescriptorSets, descriptorWrites,
                               cycles, renders, legacyVars>>

\* The draws of one pass, marked with the layer they belong to.
Layer(draws, layer) ==
    [k \in 1..Len(draws) |-> [texture |-> draws[k].texture,
                              codepoint |-> draws[k].codepoint, layer |-> layer]]

\* TextRenderer::DrawText (std::string version)
DrawText(font, text) ==
    TextCall("DrawText", font, text, Layer(DrawTextDraws(font, text), "text"))

\* TextRenderer::DrawTextWithShadow (std::string version)
DrawTextWithShadow(font, text) ==
    TextCall("DrawTextWithShadow", font, text,
             ShadowFirst(Layer(DrawTextDraws(font, text), "shadow"),
                         Layer(DrawTextDraws(font, text), "text")))

\* Begin of a cycle in which text is drawn: an accepted Begin starts the
\* record of the cycle's text draws afresh.
TextCycleBegin(camera) ==
    /\ Begin(camera)
    /\ IF BeginRejects(m_IsBatching)
       THEN UNCHANGED textVars
       ELSE /\ issued' = <<>>
            /\ textCalls' = 0
            /\ UNCHANGED textArgs

notTextVars == <<rendererVars, cameraVars, inputVars, audioVars, textureVars>>

\* Cycles of text alone.
NextText ==
    \/ \E camera \in Cameras : TextCycleBegin(camera) /\ UNCHANGED notTextVars
    \/ \E font \in Fonts, text \in Texts : DrawText(font, text) /\ UNCHANGED notTextVars
    \/ \E font \in Fonts, text \in Texts :
           DrawTextWithShadow(font, text) /\ UNCHANGED notTextVars
    \/ End /\ UNCHANGED collaboratorVars

SpecText == Init /\ [][NextText]_vars

\* Cycles in which shadowed text is drawn among the sprites of the caller.
NextShadow ==
    \/ \E camera \in Cameras : TextCycleBegin(camera) /\ UNCHANGED notTextVars
    \/ \E texture \in CallerTextures : Draw(texture) /\ UNCHANGED collaboratorVars
    \/ \E font \in Fonts, text \in ShadowTexts :
           DrawTextWithShadow(font, text) /\ UNCHANGED notTextVars
    \/ End /\ UNCHANGED collaboratorVars
    \/ \E enabled \in BOOLEAN :
           SetTextureSortingEnabled(enabled) /\ UNCHANGED collaboratorVars

SpecShadow == Init /\ [][NextShadow]_vars

\* C26: shadowed text layers correctly.  The Draw calls of one
\* DrawTextWithShadow call are all on the font's atlas texture and every
\* shadow quad is submitted before every foreground quad; after End every
\* shadow instance of the call precedes every foreground instance of the
\* call in the instance list, whatever other draws surround the call.
ShadowedTextLayers ==
    \A s, f \in 1..Len(issued) :
        (/\ issued[s].call = issued[f].call
         /\ issued[s].layer = "shadow"
         /\ issued[f].layer = "text")
        => /\ issued[s].texture = AtlasTexture
           /\ issued[f].texture = AtlasTexture
           /\ issued[s].ordinal < issued[f].ordinal
           /\ JustEnded =>
                 \A p, q \in 1..Len(m_Instances) :
                     (m_Instances[p] = issued[s].ordinal
                        /\ m_Instances[q] = issued[f].ordinal) => p < q

\* A cycle has ended in which a sprite of a lower texture was drawn after a
\* shadowed glyph and sorted ahead of it: the instance list holds that
\* sprite, then the shadow, then the foreground.
ShadowedTextLayersWitness ==
    /\ JustEnded
    /\ m_EnableTextureSorting
    /\ Len(issued) = 2
    /\ issued[1].layer = "shadow"
    /\ issued[2].layer = "text"
    /\ m_Instances = <<3, 1, 2>>

\* The k-th smallest element of a set of numbers.
Kth(S, k) == CHOOSE i \in S : Cardinality({j \in S : j <= i}) = k

\* C27: text is ordinary draws.  DrawText on a batching engine issues, in
\* code-point order, one SpriteBatch::Draw on the font's atlas texture for
\* each decoded code point that has a glyph with non-zero bitmap width and
\* height and none for the others; with a null font or an empty text it
\* issues no Draw.
TextIsOrdinaryDraws ==
    [][ (lastCall' = "DrawText" /\ m_IsBatching) =>
          LET font == textArgs'.font
              text == textArgs'.text
              codepoints == Utf8ToCodepoints(text)
              drawable == {i \in 1..Len(codepoints) :
                              /\ HasGlyph(font, codepoints[i])
                              /\ GlyphSize(font, codepoints[i])[1] # 0
                              /\ GlyphSize(font, codepoints[i])[2] # 0}
              new == SubSeq(issued', Len(issued) + 1, Len(issued'))
          IN  /\ SubSeq(issued', 1, Len(issued)) = issued
              /\ submitted' = submitted + Len(new)
              /\ IF font = NULL \/ text = <<>>
                 THEN new = <<>>
                 ELSE /\ Len(new) = Cardinality(drawable)
                      /\ \A k \in 1..Len(new) :
                            /\ new[k].texture = AtlasTexture
                            /\ new[k].codepoint = codepoints[Kth(drawable, k)]
                            /\ new[k].ordinal = submitted + k ]_vars

\* DrawText of "A A": two draws, none for the space.
TextIsOrdinaryDrawsWitness ==
    /\ lastCall = "DrawText"
    /\ m_IsBatching
    /\ textArgs = [font |-> TheFont, text |-> <<65, 32, 65>>]
    /\ Len(issued) = 2
    /\ issued[1].codepoint = 65
    /\ issued[2].codepoint = 65

\* The vkCmdBindDescriptorSets commands of a command list, in order.
BindCommands(commands) ==
    SelectSeq(commands, LAMBDA c : c.op = "vkCmdBindDescriptorSets")

\* C28: descriptor cache.  No call removes an entry of m_DescriptorSets or
\* changes the descriptor set an entry holds; distinct textures hold
\* distinct descriptor sets, one allocation each; only Render adds entries,
\* exactly those of the textures of its batches that had none (so none when
\* all were cached), and every descriptor set it binds is the cached one of
\* the batch's texture.
DescriptorCacheStable ==
    [][ LET old == DOMAIN m_DescriptorSets
            new == DOMAIN m_DescriptorSets'
            drawn == {m_Batches[i].texture : i \in 1..Len(m_Batches)}
            binds == BindCommands(commandBuffer')
        IN  /\ old \subseteq new
            /\ \A t \in old : m_DescriptorSets'[t] = m_DescriptorSets[t]
            /\ {m_DescriptorSets'[t] : t \in new} = 1..Cardinality(new)
            /\ new \ old = IF lastCall' = "Render" THEN drawn \ old ELSE {}
            /\ lastCall' = "Render" =>
                  /\ Len(binds) = Len(m_Batches)
                  /\ \A i \in 1..Len(binds) :
                        /\ binds[i].texture = m_Batches[i].texture
                        /\ binds[i].descriptorSet = m_DescriptorSets'[binds[i].texture]
      ]_vars

\* The second batch of a Render uses a descriptor set allocated before the
\* one of its first batch: that set came from the cache an earlier Render
\* had filled.
DescriptorCacheStableWitness ==
    /\ lastCall = "Render"
    /\ LET binds == BindCommands(commandBuffer)
       IN  /\ Len(binds) = 2
           /\ binds[1].descriptorSet > binds[2].descriptorSet
           /\ Cardinality(DOMAIN m_DescriptorSets) = 2

\* ======================================================================
\* Texture (SpriteBatch.cpp 850-1075, Texture.h).  Every texture is built
\* with the default modes, Linear and Repeat (Texture.h 71-72), and its
\* constructor makes its image view and its first sampler.
TextureFilters == {"Nearest", "Linear"}
TextureWraps == {"Repeat", "ClampToEdge", "MirroredRepeat"}

\* The textures a caller holds a pointer to.
OwnedTextures == Textures \ {WhiteTexture}

\* Texture::CreateSampler (951-991): vkDestroySampler on the sampler the
\* texture owns, then vkCreateSampler; the new handle is named by the number
\* of the creation.
CreateSampler(texture) ==
    /\ samplersCreated' = samplersCreated + 1
    /\ m_Sampler' = [m_Sampler EXCEPT ![texture] = samplersCreated + 1]

\* A sampler handle that vkDestroySampler has destroyed: one that was
\* created and that no texture owns.
Destroyed(sampler) ==
    /\ sampler \in 1..samplersCreated
    /\ \A texture \in Textures : m_Sampler[texture] # sampler

\* Texture::SetFilter (993-998).
SetFilter(texture, filter) ==
    /\ samplersCreated < NumTextures + MaxSamplerChanges
    /\ lastCall' = "SetFilter"
    /\ commandBuffer' = <<>>
    /\ thrown' = NoError
    /\ IF m_Filter[texture] # filter
       THEN /\ m_Filter' = [m_Filter EXCEPT ![texture] = filter]
            /\ CreateSampler(texture)
       ELSE UNCHANGED <<m_Filter, m_Sampler, samplersCreated>>
    /\ UNCHANGED m_Wrap

\* Texture::SetWrap (1000-1005).
SetWrap(texture, wrap) ==
    /\ samplersCreated < NumTextures + MaxSamplerChanges
    /\ lastCall' = "SetWrap"
    /\ commandBuffer' = <<>>
    /\ thrown' = NoError
    /\ IF m_Wrap[texture] # wrap
       THEN /\ m_Wrap' = [m_Wrap EXCEPT ![texture] = wrap]
            /\ CreateSampler(texture)
       ELSE UNCHANGED <<m_Wrap, m_Sampler, samplersCreated>>
    /\ UNCHANGED m_Filter

notTextureVars == <<engineVars, legacyVars, harnessVars, rendererVars, cameraVars,
                    inputVars, audioVars, textVars>>

\* Cycles of the engine between which the caller changes the modes of its
\* textures.
NextTextures ==
    \/ \E camera \in Cameras : Begin(camera) /\ UNCHANGED collaboratorVars
    \/ \E texture \in CallerTextures : Draw(texture) /\ UNCHANGED collaboratorVars
    \/ End /\ UNCHANGED collaboratorVars
    \/ Render /\ UNCHANGED collaboratorVars
    \/ \E texture \in OwnedTextures, filter \in TextureFilters :
           SetFilter(texture, filter) /\ UNCHANGED notTextureVars
    \/ \E texture \in OwnedTextures, wrap \in TextureWraps :
           SetWrap(texture, wrap) /\ UNCHANGED notTextureVars

\* An engine constructed with room for TextureCapacity sprites.
InitTextures == Init /\ m_MaxSprites = TextureCapacity

SpecTextures == InitTextures /\ [][NextTextures]_vars

\* C29: bound descriptors are current.  Every descriptor set a Render binds
\* for a batch holds the image view and the sampler that the batch's texture
\* owns when the Render is called.
BoundDescriptorsCurrent ==
    lastCall = "Render" =>
        \A i \in 1..Len(commandBuffer) :
            commandBuffer[i].op = "vkCmdBindDescriptorSets" =>
                descriptorWrites[commandBuffer[i].descriptorSet]
                    = GetDescriptorInfo(commandBuffer[i].texture)

\* The image view alone: a bound descriptor set holds the image view of its
\* batch's texture.
BoundImageViewsCurrent ==
    lastCall = "Render" =>
        \A i \in 1..Len(commandBuffer) :
            commandBuffer[i].op = "vkCmdBindDescriptorSets" =>
                descriptorWrites[commandBuffer[i].descriptorSet].imageView
                    = GetDescriptorInfo(commandBuffer[i].texture).imageView

\* A Render has bound a descriptor set whose sampler was destroyed.
BoundSamplerDestroyed ==
    /\ lastCall = "Render"
    /\ \E i \in 1..Len(commandBuffer) :
           /\ commandBuffer[i].op = "vkCmdBindDescriptorSets"
           /\ Destroyed(descriptorWrites[commandBuffer[i].descriptorSet].sampler)

\* C30: a sound plays to its end.  A ProcessAudio callback that mixes a
\* frame of an active, unpaused, non-looping instance moves its read cursor
\* forward or ends it, whatever pitch SetPitch has given it (a callback is
\* a function of the entry, so a cursor one callback leaves in place is left
\* in place by every later callback and the instance never ends); and an
\* Update removes every instance that has ended.
SoundPlaysToEnd ==
    [][ /\ (audioPc = "mixing" /\ audioPc' = "idle") =>
              \A id \in DOMAIN playingSounds :
                  LET playing == playingSounds[id]
                  IN  (IsActive(playing) /\ ~playing.paused /\ ~playing.loop) =>
                          \/ ~IsActive(playingSounds'[id])
                          \/ playingSounds'[id].currentFrame > playing.currentFrame
        /\ audioCall'.op = "Update" =>
              \A id \in DOMAIN playingSounds :
                  ~IsActive(playingSounds[id]) => id \notin DOMAIN playingSounds'
      ]_vars

\* The second half alone: an Update removes every instance that has ended.
UpdateRemovesEnded ==
    [][ audioCall'.op = "Update" =>
              \A id \in DOMAIN playingSounds :
                  ~IsActive(playingSounds[id]) => id \notin DOMAIN playingSounds'
      ]_vars

\* A non-looping instance whose pitch is a fraction below one sits in the
\* table, active and unpaused, with its cursor at the start after a callback
\* has mixed it.
CursorStuck ==
    /\ audioCall.op = "ProcessAudioEnd"
    /\ audioPc = "idle"
    /\ \E id \in DOMAIN playingSounds :
           /\ IsActive(playingSounds[id])
           /\ ~playingSounds[id].paused
           /\ ~playingSounds[id].loop
           /\ playingSounds[id].pitch < PitchOne
           /\ playingSounds[id].currentFrame = 0

====
